---- MODULE Spec2Model ----
(***************************************************************************)
(* Model of the media_manager file processing pipeline                     *)
(* (core/file_processor.py, core/file_renamer.py, core/validator.py,       *)
(* core/metadata_handler.py, media/format_detector.py) and of its backup   *)
(* store (utils/backup.py), with the helpers of utils/file_utils.py.       *)
(*                                                                         *)
(* Strings are sequences of characters.  A run of letters that no          *)
(* operation of the program looks into ("song", "mp3", "unnamed_file") is  *)
(* written as one character; the characters the code tests for (".", " ",  *)
(* "_", the invalid characters) are characters of their own.               *)
(***************************************************************************)
EXTENDS Integers, Sequences, FiniteSets, TLC

VARIABLES
    config,    \* the configuration dictionary handed to FileProcessor
    fs,        \* the filesystem: path -> file, for the paths that exist
    ledger,    \* BackupManager.backup_metadata (and its persisted copy)
    clock,     \* datetime.now(), in whole seconds
    mode,      \* "idle"; "dir" while process_directory is in its loop, then
               \* "returned", or "crashed" if an exception ended the loop
    found,     \* process_directory: media_files
    queue,     \* process_directory: the part of media_files still to process
    results,   \* process_directory: results
    start_fs,  \* the filesystem when the running/last operation was called
    ops,       \* number of operations called so far
    faults,    \* number of I/O failures injected so far
    store,     \* what the backup store keeps on disk besides the backup files:
               \* the directories that exist and the ledger file
    ev,        \* the last operation that returned, with what it returned
    workers    \* the FileProcessor instances that run side by side: where each
               \* is in process_file, and the ledger its BackupManager holds

vars == <<config, fs, ledger, clock, mode, found, queue, results, start_fs,
          ops, faults, store, ev, workers>>

\* ---------------------------------------------------------------- bounds
MaxOps == 1
MaxClock == 1
MaxFaults == 1
MaxBackupOps == 3
MaxRenames == 2
MaxCounter == 2

\* ------------------------------------------------------------ characters
ExtMp3 == <<".", "mp3">>
ExtMp3Upper == <<".", "MP3">>
ExtMp4 == <<".", "mp4">>
ExtMp4Upper == <<".", "MP4">>
ExtTxt == <<".", "txt">>

\* str.lower() on the characters of the model
LowerChar(c) ==
    CASE c = "MP3" -> "mp3"
      [] c = "MP4" -> "mp4"
      [] c = "A" -> "a"
      [] c = "B" -> "b"
      [] OTHER -> c

RECURSIVE lower(_)
lower(s) == IF s = <<>> THEN <<>> ELSE <<LowerChar(Head(s))>> \o lower(Tail(s))

\* ----------------------------------------------------------------- paths
\* A path is its directory and its file name.  "a" and "b" are the
\* subdirectories of the processed tree, "backups" is the backup directory.
BackupDir == "backups"
Path(d, n) == [dir |-> d, name |-> n]
NoPath == [dir |-> "", name |-> <<>>]

\* name.rfind('.') as a 1-based index, 0 when there is no dot
LastDot(name) ==
    LET idx == {i \in 1..Len(name) : name[i] = "."}
    IN IF idx = {} THEN 0 ELSE CHOOSE i \in idx : \A j \in idx : j <= i

\* pathlib.PurePath.suffix / .stem
suffix(name) ==
    LET i == LastDot(name)
    IN IF 1 < i /\ i < Len(name) THEN SubSeq(name, i, Len(name)) ELSE <<>>

stem(name) ==
    LET i == LastDot(name)
    IN IF 1 < i /\ i < Len(name) THEN SubSeq(name, 1, i - 1) ELSE name

exists(f, p) == p \in DOMAIN f

\* the filesystem f with path p holding file x / with path p removed
WithFile(f, p, x) == [q \in (DOMAIN f) \cup {p} |-> IF q = p THEN x ELSE f[q]]
WithoutFile(f, p) == [q \in (DOMAIN f) \ {p} |-> f[q]]

\* --------------------------------------------------------------- content
\* A file: what kind of bytes it holds ("empty" is the zero-byte file), which
\* payload, its tag set, whether a tag save has rewritten it, and whether the
\* process may read it.
File(k, d, t, r) == [kind |-> k, data |-> d, tags |-> t, rewritten |-> FALSE, readable |-> r]

NoTags == [f \in {} |-> <<>>]
TagsAB == [f \in {"artist", "title"} |-> IF f = "artist" THEN <<"A">> ELSE <<"B">>]
TagsTitleOnly == [f \in {"title"} |-> <<"B">>]

\* what the content digest and the size on disk depend on
Content(x) == [kind |-> x.kind, data |-> x.data, tags |-> x.tags, rewritten |-> x.rewritten]
st_size(x) == IF x.kind = "empty" THEN 0 ELSE 1 + Cardinality(DOMAIN x.tags)

\* st_mtime, as the file's age in days: the payload "d2" was last written 40
\* days ago, every other payload, and every file a tag save has rewritten,
\* yesterday.  shutil.copy2 copies the modification time with the bytes, so a
\* copy is as old as the file it was made from.
AgeDays(x) == IF x.data = "d2" /\ ~x.rewritten THEN 40 ELSE 1

\* ---------------------------------------------------------- configuration
\* The parts of the configuration dictionary the code reads:
\*   supported_keys             the keys of config['supported_formats'] that
\*                              `ext in config['supported_formats']` can match
\*   audio, video               config['supported_formats']['audio'|'video']
\*   backup_enabled             config.get('backup_enabled', True)
\*   processing_backup_enabled  config['processing']['backup_enabled']
\*   update_metadata            config.get('update_metadata', True)
\*   processing_update_metadata config['processing']['update_metadata'], the
\*                              entry the configuration file carries
\*   audio_pattern, video_pattern   config['naming'][...]
\* config['supported_formats'] is a mapping in every state: the constructor
\* of AudioProcessor calls .get('audio', []) on it, so FileProcessor cannot
\* be constructed around a plain list.
Lit(c) == [ph |-> FALSE, s |-> c]
Field(f) == [ph |-> TRUE, s |-> f]

\* "{artist} - {title}"
DefaultAudioPattern == <<Field("artist"), Lit(" "), Lit("-"), Lit(" "), Field("title")>>
\* "{title} ({year})"
DefaultVideoPattern == <<Field("title"), Lit(" "), Lit("("), Field("year"), Lit(")")>>

Configs ==
    [supported_keys : {{}, {ExtMp3, ExtMp4}},
     audio : {{ExtMp3}},
     video : {{ExtMp4}},
     backup_enabled : BOOLEAN,
     processing_backup_enabled : BOOLEAN,
     update_metadata : BOOLEAN,
     processing_update_metadata : BOOLEAN,
     audio_pattern : {DefaultAudioPattern},
     video_pattern : {DefaultVideoPattern}]

\* ------------------------------------------------------- format detector
NoFormat == <<>>

\* mimetypes.guess_type: by the extension of the name, case-insensitively
guess_type(name) ==
    LET e == lower(suffix(name))
    IN CASE e = ExtMp3 -> "audio/mpeg"
         [] e = ExtMp4 -> "video/mp4"
         [] e = ExtTxt -> "text/plain"
         [] OTHER -> ""

\* magic.from_buffer(header, mime=True): by the bytes
magic_from_buffer(x) ==
    CASE x.kind = "mp3" -> "audio/mpeg"
      [] x.kind = "mp4" -> "video/mp4"
      [] x.kind = "text" -> "text/plain"
      [] OTHER -> "application/octet-stream"

_mime_to_format(mime) ==
    CASE mime = "audio/mpeg" -> ExtMp3
      [] mime = "video/mp4" -> ExtMp4
      [] OTHER -> NoFormat

detect_format(f, cfg, p) ==
    LET extension == lower(suffix(p.name))
    IN IF extension \in cfg.supported_keys THEN extension
       ELSE IF _mime_to_format(guess_type(p.name)) # NoFormat
            THEN _mime_to_format(guess_type(p.name))
       ELSE _mime_to_format(magic_from_buffer(f[p]))

\* mutagen.File(path) returns a tag object (neither None nor an exception)
MutagenReads(x) == x.kind \in {"mp3", "mp4"}
\* ffmpeg.probe(path) reports a video stream
ProbeHasVideo(x) == x.kind = "mp4"

\* the set of format-specific errors is empty
_validate_format_specific(x, format_type) ==
    IF format_type \in {ExtMp3, <<".", "flac">>} THEN MutagenReads(x)
    ELSE IF format_type \in {<<".", "wav">>, <<".", "aac">>, <<".", "ogg">>, <<".", "m4a">>} THEN TRUE
    ELSE IF format_type \in {ExtMp4, <<".", "avi">>, <<".", "mkv">>, <<".", "mov">>,
                             <<".", "wmv">>, <<".", "flv">>} THEN ProbeHasVideo(x)
    ELSE TRUE

\* FormatDetector.validate_file / FileValidator.validate_file: is_valid
validate_file(f, cfg, p) ==
    /\ exists(f, p)
    /\ st_size(f[p]) # 0
    /\ f[p].readable
    /\ detect_format(f, cfg, p) # NoFormat
    /\ _validate_format_specific(f[p], detect_format(f, cfg, p))

\* ------------------------------------------------------ metadata gateway
\* changed: the extension is compared as it is written
_is_audio_exact(cfg, p) == suffix(p.name) \in cfg.audio

_is_audio(cfg, p) == lower(suffix(p.name)) \in cfg.audio
_is_video(cfg, p) == lower(suffix(p.name)) \in cfg.video

\* the fields AudioProcessor._update_common_metadata writes
TagMapping == {"title", "artist", "album", "year", "genre", "track", "comment", "composer"}

\* AudioProcessor.extract_metadata: the tags with a non-empty value (the
\* stream's technical fields, which no pattern here refers to, are left out)
audio_extract_metadata(x) ==
    IF ~MutagenReads(x) THEN NoTags
    ELSE [k \in {t \in DOMAIN x.tags : x.tags[t] # <<>>} |-> x.tags[k]]

\* MetadataHandler.extract_metadata
extract_metadata(f, cfg, p) ==
    IF _is_audio(cfg, p) THEN audio_extract_metadata(f[p])
    ELSE NoTags   \* VideoProcessor.extract_metadata returns {}; so does the fallback

\* AudioProcessor.update_metadata: the file after the call and the returned
\* flag.  io is what the tag library's I/O does: "ok", "fail" (an exception
\* before anything is written) or "corrupt" (save() fails part-way).
audio_update_metadata(x, metadata, io) ==
    IF ~MutagenReads(x) \/ io = "fail" THEN [file |-> x, ret |-> FALSE]
    ELSE IF io = "corrupt"
    THEN [file |-> [x EXCEPT !.kind = "garbage", !.rewritten = TRUE], ret |-> FALSE]
    ELSE LET written == {k \in DOMAIN metadata \cap TagMapping : metadata[k] # <<>>}
             tags == IF DOMAIN x.tags = {} THEN x.tags
                     ELSE [k \in DOMAIN x.tags \cup written |->
                              IF k \in written THEN metadata[k] ELSE x.tags[k]]
         IN [file |-> [x EXCEPT !.tags = tags, !.rewritten = TRUE], ret |-> TRUE]

\* MetadataHandler.update_metadata: the filesystem after the call and the flag
update_metadata(f, cfg, p, metadata, io) ==
    IF _is_audio(cfg, p)
    THEN LET r == audio_update_metadata(f[p], metadata, io)
         IN [fs |-> WithFile(f, p, r.file), ret |-> r.ret]
    ELSE [fs |-> f, ret |-> FALSE]   \* VideoProcessor.update_metadata and the fallback

\* ------------------------------------------------- the audio codec's tags
\* What mutagen.File hands to AudioProcessor: open is "ok", "none" (the file
\* is not recognised, mutagen.File returns None) or "raise"; tags maps tag
\* keys to lists of texts; info maps the attributes the stream info has to
\* their values.  A value of a metadata mapping is a scalar: its type and the
\* text str() gives for it.
str(v) == [type |-> "str", text |-> v.text]

\* the tag names of a field, in the order _extract_common_metadata tries
\* them, and the tag _update_common_metadata writes a field to
common_tags == [field \in {"title", "artist"} |->
                   IF field = "title" THEN <<"title", "TIT2">> ELSE <<"artist", "TPE1">>]
tag_mapping == [field \in {"title", "artist"} |-> IF field = "title" THEN "TIT2" ELSE "TPE1"]

\* the first tag name of the field that is in the container (none: "")
FoundTag(tags, field) ==
    IF tags = NoTags THEN ""
    ELSE IF common_tags[field][1] \in DOMAIN tags THEN common_tags[field][1]
    ELSE IF common_tags[field][2] \in DOMAIN tags THEN common_tags[field][2]
    ELSE ""

\* audio.tags[tag_name][0] raises IndexError for a tag with an empty list
ExtractRaises(tags) ==
    \E field \in DOMAIN common_tags :
        FoundTag(tags, field) # "" /\ tags[FoundTag(tags, field)] = <<>>

\* AudioProcessor._extract_common_metadata, for a container that does not raise
_extract_common_metadata(tags) ==
    LET value(field) == str([type |-> "str", text |-> tags[FoundTag(tags, field)][1]])
        fields == {field \in DOMAIN common_tags :
                      FoundTag(tags, field) # "" /\ value(field).text # ""}
    IN [field \in fields |-> value(field)]

\* AudioProcessor._extract_technical_info
_extract_technical_info(info) ==
    [k \in {"duration" : a \in {"length"} \cap DOMAIN info}
            \cup {"bitrate" : a \in {"bitrate"} \cap DOMAIN info} |->
        IF k = "duration" THEN info["length"] ELSE info["bitrate"]]

\* changed: the last value of a tag is taken
AudioProcessor_extract_metadata_last(audio) ==
    IF audio.open # "ok" \/ ExtractRaises(audio.tags) THEN NoTags
    ELSE LET tags == audio.tags
             value(field) == str([type |-> "str",
                                  text |-> tags[FoundTag(tags, field)][Len(tags[FoundTag(tags, field)])]])
             fields == {field \in DOMAIN common_tags :
                           FoundTag(tags, field) # "" /\ value(field).text # ""}
         IN [field \in fields |-> value(field)] @@ _extract_technical_info(audio.info)

\* AudioProcessor.extract_metadata on what mutagen.File returned
AudioProcessor_extract_metadata(audio) ==
    IF audio.open # "ok" \/ ExtractRaises(audio.tags) THEN NoTags
    ELSE _extract_common_metadata(audio.tags) @@ _extract_technical_info(audio.info)

\* AudioProcessor._update_common_metadata: the container after the loop
_update_common_metadata(tags, metadata) ==
    IF tags = NoTags THEN tags
    ELSE LET written == {field \in DOMAIN tag_mapping :
                            field \in DOMAIN metadata /\ metadata[field].text # ""}
             field_of(t) == CHOOSE field \in written : tag_mapping[field] = t
         IN [t \in DOMAIN tags \cup {tag_mapping[field] : field \in written} |->
                IF \E field \in written : tag_mapping[field] = t
                THEN str(metadata[field_of(t)])
                ELSE tags[t]]

\* AudioProcessor.update_metadata: the container handed to save(), how often
\* save() was called, and the returned flag; io = "fail": save() raises
AudioProcessor_update_metadata(audio, metadata, io) ==
    IF audio.open # "ok" THEN [tags |-> audio.tags, saves |-> 0, ret |-> FALSE]
    ELSE [tags |-> _update_common_metadata(audio.tags, metadata), saves |-> 1,
          ret |-> io = "ok"]

\* ------------------------------------------------------------ file_utils
InvalidChars == {"<", "|", ">", ":", "\"", "/", "\\", "?", "*"}

RECURSIVE lstrip(_)
lstrip(s) == IF s # <<>> /\ Head(s) \in {" ", "."} THEN lstrip(Tail(s)) ELSE s

RECURSIVE rstrip(_)
rstrip(s) ==
    IF s # <<>> /\ s[Len(s)] \in {" ", "."} THEN rstrip(SubSeq(s, 1, Len(s) - 1)) ELSE s

RECURSIVE replace_invalid(_)
replace_invalid(s) ==
    IF s = <<>> THEN <<>>
    ELSE <<IF Head(s) \in InvalidChars THEN "_" ELSE Head(s)>> \o replace_invalid(Tail(s))

sanitize_filename(filename) ==
    LET stripped == rstrip(lstrip(replace_invalid(filename)))
    IN IF stripped = <<>> THEN <<"unnamed_file">> ELSE stripped

\* f"{stem}_{counter}{suffix}"
Numbered(p, counter) == Path(p.dir, stem(p.name) \o <<"_", ToString(counter)>> \o suffix(p.name))

\* changed: the name is taken as it is, also when a file has it
get_unique_filename_keep(f, p) == p

\* changed: the counter starts at 2
get_unique_filename_skip(f, p) ==
    IF ~exists(f, p) THEN p
    ELSE LET free == {k \in 2..(Cardinality(DOMAIN f) + 2) : ~exists(f, Numbered(p, k))}
         IN Numbered(p, CHOOSE k \in free : \A j \in free : k <= j)

get_unique_filename(f, p) ==
    IF ~exists(f, p) THEN p
    ELSE LET free == {k \in 1..(Cardinality(DOMAIN f) + 1) : ~exists(f, Numbered(p, k))}
         IN Numbered(p, CHOOSE k \in free : \A j \in free : k <= j)

\* ---------------------------------------------------------- file renamer
\* pattern.format(**metadata): the placeholders that raise KeyError, and the
\* substituted string
MissingKeys(pattern, metadata) ==
    {pattern[i].s : i \in {j \in 1..Len(pattern) : pattern[j].ph /\ pattern[j].s \notin DOMAIN metadata}}

RECURSIVE format(_, _)
format(pattern, metadata) ==
    IF pattern = <<>> THEN <<>>
    ELSE (IF Head(pattern).ph THEN metadata[Head(pattern).s] ELSE <<Head(pattern).s>>)
         \o format(Tail(pattern), metadata)

\* changed: the original name is sanitized before it is handed back
generate_filename_sanitized(cfg, p, metadata) ==
    IF ~_is_audio(cfg, p) /\ ~_is_video(cfg, p) THEN sanitize_filename(p.name)
    ELSE LET pattern == IF _is_audio(cfg, p) THEN cfg.audio_pattern ELSE cfg.video_pattern
         IN IF MissingKeys(pattern, metadata) # {} THEN sanitize_filename(p.name)
            ELSE sanitize_filename(format(pattern, metadata) \o suffix(p.name))

generate_filename(cfg, p, metadata) ==
    IF ~_is_audio(cfg, p) /\ ~_is_video(cfg, p) THEN p.name
    ELSE LET pattern == IF _is_audio(cfg, p) THEN cfg.audio_pattern ELSE cfg.video_pattern
         IN IF MissingKeys(pattern, metadata) # {} THEN p.name
            ELSE sanitize_filename(format(pattern, metadata) \o suffix(p.name))

\* FileRenamer.rename_file: the target path, and the filesystem after the move
rename_target(f, old_path, new_name) == get_unique_filename(f, Path(old_path.dir, new_name))

\* changed: the file is moved to the new name whether or not a file has it
rename_file_overwrite(f, old_path, new_name) ==
    LET new_path == Path(old_path.dir, new_name)
    IN [fs |-> WithFile(WithoutFile(f, old_path), new_path, f[old_path]), ret |-> new_path]

rename_file(f, old_path, new_name) ==
    LET new_path == rename_target(f, old_path, new_name)
    IN [fs |-> WithFile(WithoutFile(f, old_path), new_path, f[old_path]), ret |-> new_path]

\* -------------------------------------------------------- backup manager
\* f"{file_path.stem}_{timestamp}{file_path.suffix}" in the backup directory;
\* the timestamp has one-second resolution
backup_name(p, now) == Path(BackupDir, stem(p.name) \o <<"_", ToString(now)>> \o suffix(p.name))

\* BackupManager._add_backup_entry: the entry appended to the ledger
backup_entry(f, original_path, backup_path, now) ==
    [original_path |-> original_path,
     backup_path |-> backup_path,
     created_at |-> now,
     file_size |-> st_size(f[original_path]),
     file_hash |-> Content(f[original_path])]

\* what a copy that fails part-way leaves at the destination
Truncated(x) == [x EXCEPT !.kind = "garbage", !.rewritten = TRUE]

\* shutil.copy2(src, dst) raises: the source is missing or unreadable, or the
\* I/O fails
copy_raises(f, src, io_fails) == ~exists(f, src) \/ ~f[src].readable \/ io_fails

\* changed: no entry is added for a backup path the ledger already lists
create_backup_dedup(f, led, now, cfg, file_path, io_fails) ==
    IF ~cfg.processing_backup_enabled THEN [fs |-> f, ledger |-> led, ret |-> NoPath]
    ELSE LET backup_path == backup_name(file_path, now)
         IN IF copy_raises(f, file_path, io_fails = "open")
            THEN [fs |-> f, ledger |-> led, ret |-> NoPath]
            ELSE IF io_fails = "write"
            THEN [fs |-> WithFile(f, backup_path, Truncated(f[file_path])),
                  ledger |-> led, ret |-> NoPath]
            ELSE [fs |-> WithFile(f, backup_path, f[file_path]),
                  ledger |-> IF \E i \in 1..Len(led) : led[i].backup_path = backup_path
                             THEN led
                             ELSE Append(led, backup_entry(f, file_path, backup_path, now)),
                  ret |-> backup_path]

\* BackupManager.create_backup: filesystem and ledger after the call, and the
\* returned backup path (NoPath for None).  io_fails is what the I/O of
\* shutil.copy2 does: "no" failure, a failure to "open" the files (nothing is
\* written), or a failure to "write" (the destination was created and is left
\* behind, incomplete)
create_backup(f, led, now, cfg, file_path, io_fails) ==
    IF ~cfg.processing_backup_enabled THEN [fs |-> f, ledger |-> led, ret |-> NoPath]
    ELSE LET backup_path == backup_name(file_path, now)
         IN IF copy_raises(f, file_path, io_fails = "open")
            THEN [fs |-> f, ledger |-> led, ret |-> NoPath]
            ELSE IF io_fails = "write"
            THEN [fs |-> WithFile(f, backup_path, Truncated(f[file_path])),
                  ledger |-> led, ret |-> NoPath]
            ELSE [fs |-> WithFile(f, backup_path, f[file_path]),
                  ledger |-> Append(led, backup_entry(f, file_path, backup_path, now)),
                  ret |-> backup_path]

\* BackupManager._get_original_path: the first entry of the backup path
_get_original_path(led, backup_path) ==
    LET hits == {i \in 1..Len(led) : led[i].backup_path = backup_path}
    IN IF hits = {} THEN NoPath
       ELSE led[CHOOSE i \in hits : \A j \in hits : i <= j].original_path

\* changed: a backup file the ledger does not list is copied to the path the
\* caller names
restore_backup_unlisted(f, led, backup_path, restore_path, io_fails) ==
    LET original_path == _get_original_path(led, backup_path)
        target == IF restore_path = NoPath THEN original_path ELSE restore_path
    IN IF target = NoPath THEN [fs |-> f, ret |-> FALSE]
       ELSE IF copy_raises(f, backup_path, io_fails) \/ target = backup_path
       THEN [fs |-> f, ret |-> FALSE]
       ELSE [fs |-> WithFile(f, target, f[backup_path]), ret |-> TRUE]

\* changed: the backup file is moved to the destination instead of copied
restore_backup_moves(f, led, backup_path, restore_path, io_fails) ==
    LET original_path == _get_original_path(led, backup_path)
        target == IF restore_path = NoPath THEN original_path ELSE restore_path
    IN IF original_path = NoPath THEN [fs |-> f, ret |-> FALSE]
       ELSE IF copy_raises(f, backup_path, io_fails) \/ target = backup_path
       THEN [fs |-> f, ret |-> FALSE]
       ELSE [fs |-> WithoutFile(WithFile(f, target, f[backup_path]), backup_path),
             ret |-> TRUE]

\* BackupManager.restore_backup: filesystem after the call and the returned flag
restore_backup(f, led, backup_path, restore_path, io_fails) ==
    LET original_path == _get_original_path(led, backup_path)
        target == IF restore_path = NoPath THEN original_path ELSE restore_path
    IN IF original_path = NoPath THEN [fs |-> f, ret |-> FALSE]
       ELSE IF copy_raises(f, backup_path, io_fails) \/ target = backup_path
       THEN [fs |-> f, ret |-> FALSE]
       ELSE [fs |-> WithFile(f, target, f[backup_path]), ret |-> TRUE]

\* BackupManager.list_backups(file_path)
list_backups(led, file_path) == SelectSeq(led, LAMBDA e : e.original_path = file_path)

\* list.remove(entry): the ledger without the first entry equal to e
RemoveFirst(led, e) ==
    LET hits == {i \in 1..Len(led) : led[i] = e}
    IN IF hits = {} THEN led
       ELSE LET k == CHOOSE i \in hits : \A j \in hits : i <= j
            IN SubSeq(led, 1, k - 1) \o SubSeq(led, k + 1, Len(led))

\* changed: the loop ends at the first backup file whose unlink raises
RECURSIVE cleanup_loop_stops(_, _, _, _, _, _)
cleanup_loop_stops(f, led, entries, max_age_days, undeletable, removed_count) ==
    IF entries = <<>> THEN [fs |-> f, ledger |-> led, ret |-> removed_count]
    ELSE LET entry == Head(entries)
             backup_path == entry.backup_path
         IN IF exists(f, backup_path) /\ AgeDays(f[backup_path]) > max_age_days
            THEN IF backup_path \in undeletable
                 THEN [fs |-> f, ledger |-> led, ret |-> removed_count]
                 ELSE cleanup_loop_stops(WithoutFile(f, backup_path), RemoveFirst(led, entry),
                                         Tail(entries), max_age_days, undeletable,
                                         removed_count + 1)
            ELSE cleanup_loop_stops(f, led, Tail(entries), max_age_days, undeletable,
                                    removed_count)

\* changed: a backup file exactly at the cutoff is removed too
RECURSIVE cleanup_loop_at_cutoff(_, _, _, _, _, _)
cleanup_loop_at_cutoff(f, led, entries, max_age_days, undeletable, removed_count) ==
    IF entries = <<>> THEN [fs |-> f, ledger |-> led, ret |-> removed_count]
    ELSE LET entry == Head(entries)
             backup_path == entry.backup_path
         IN IF exists(f, backup_path) /\ AgeDays(f[backup_path]) >= max_age_days
               /\ backup_path \notin undeletable
            THEN cleanup_loop_at_cutoff(WithoutFile(f, backup_path), RemoveFirst(led, entry),
                                        Tail(entries), max_age_days, undeletable,
                                        removed_count + 1)
            ELSE cleanup_loop_at_cutoff(f, led, Tail(entries), max_age_days, undeletable,
                                        removed_count)

\* the loop of cleanup_old_backups over the entries still to visit (a copy of
\* the ledger taken at the start): a backup file that exists and is older than
\* the cutoff is unlinked and its entry removed; when the unlink raises (the
\* file is one of undeletable), file and entry stay and the loop goes on
RECURSIVE cleanup_loop(_, _, _, _, _, _)
cleanup_loop(f, led, entries, max_age_days, undeletable, removed_count) ==
    IF entries = <<>> THEN [fs |-> f, ledger |-> led, ret |-> removed_count]
    ELSE LET entry == Head(entries)
             backup_path == entry.backup_path
         IN IF exists(f, backup_path) /\ AgeDays(f[backup_path]) > max_age_days
               /\ backup_path \notin undeletable
            THEN cleanup_loop(WithoutFile(f, backup_path), RemoveFirst(led, entry),
                              Tail(entries), max_age_days, undeletable, removed_count + 1)
            ELSE cleanup_loop(f, led, Tail(entries), max_age_days, undeletable, removed_count)

\* BackupManager.cleanup_old_backups: filesystem and ledger after the call and
\* the returned count
cleanup_old_backups(f, led, cfg, max_age_days, undeletable) ==
    IF ~cfg.processing_backup_enabled THEN [fs |-> f, ledger |-> led, ret |-> 0]
    ELSE cleanup_loop(f, led, led, max_age_days, undeletable, 0)

\* ------------------------------------------------------- the ledger file
\* backup_dir / "backup_metadata.json": whether it exists, whether it holds a
\* complete JSON document, and the entries of that document
NoLedgerFile == [written |-> FALSE, complete |-> FALSE, entries |-> <<>>]

\* BackupManager._load_backup_metadata: a missing file, or one json.load
\* fails on, gives the empty list
_load_backup_metadata(file) ==
    IF file.written /\ file.complete THEN file.entries ELSE <<>>

\* BackupManager._save_backup_metadata: open(..., 'w') and json.dump; the
\* exception of either is logged and swallowed.  save_io: "ok", "open" (the
\* file cannot be opened for writing and stays as it is) or "write" (the dump
\* fails after the file was truncated).
_save_backup_metadata(file, led, save_io) ==
    CASE save_io = "open" -> file
      [] save_io = "write" -> [written |-> TRUE, complete |-> FALSE, entries |-> <<>>]
      [] OTHER -> [written |-> TRUE, complete |-> TRUE, entries |-> led]

\* BackupManager.__init__ on a disk with the directories dirs and the ledger
\* file `file`: the directories afterwards and the ledger held in memory
backup_manager_init(cfg, dirs, file) ==
    [dirs |-> IF cfg.processing_backup_enabled THEN dirs \cup {BackupDir} ELSE dirs,
     ledger |-> _load_backup_metadata(file)]

\* restore_backup: the destination the call resolves (NoPath when the ledger
\* has no entry for the backup path); its parent directory is created before
\* the copy is tried
restore_destination(led, backup_path, restore_path) ==
    IF _get_original_path(led, backup_path) = NoPath THEN NoPath
    ELSE IF restore_path = NoPath THEN _get_original_path(led, backup_path)
    ELSE restore_path

\* -------------------------------------------------------- file processor
NewResult(file_path) ==
    [success |-> FALSE, original_path |-> file_path, new_path |-> NoPath,
     metadata |-> NoTags, errors |-> <<>>, warnings |-> <<>>]

\* One step of the pipeline as process_file ran it: the call made, the path
\* and the metadata handed to it, and whether it returned a truthy value
Call(step, path, metadata, ok) == [step |-> step, path |-> path, metadata |-> metadata, ok |-> ok]

StepNames(calls) == [i \in 1..Len(calls) |-> calls[i].step]

\* what process_file hands back to the model: filesystem and ledger after the
\* call, the calls it made, whether it raised, and the ProcessingResult
Outcome(f, led, calls, raised, result) ==
    [fs |-> f, ledger |-> led, calls |-> calls, steps |-> StepNames(calls),
     raised |-> raised, result |-> result]

\* the tag library's I/O during update_metadata, from the failing step io
UpdateIo(io) ==
    CASE io = "update" -> "fail"
      [] io = "corrupt" -> "corrupt"
      [] OTHER -> "ok"

\* changed: a failed final validation records no error
finish_file_silent(f, led, cfg, result, new_path, metadata, io, calls) ==
    LET upd == IF cfg.update_metadata
               THEN update_metadata(f, cfg, new_path, metadata, UpdateIo(io))
               ELSE [fs |-> f, ret |-> TRUE]
        warned == IF upd.ret THEN result.warnings
                  ELSE Append(result.warnings, "Failed to update metadata")
        valid == validate_file(upd.fs, cfg, new_path)
        calls7 == calls
                  \o (IF cfg.update_metadata
                      THEN <<Call("update", new_path, metadata, upd.ret)>> ELSE <<>>)
                  \o <<Call("final", new_path, NoTags, valid)>>
    IN Outcome(upd.fs, led, calls7, FALSE,
               [result EXCEPT !.new_path = new_path,
                              !.warnings = warned,
                              !.success = valid])

\* changed: a failed metadata update ends the pipeline with an error
finish_file_update_fatal(f, led, cfg, result, new_path, metadata, io, calls) ==
    LET upd == IF cfg.update_metadata
               THEN update_metadata(f, cfg, new_path, metadata, UpdateIo(io))
               ELSE [fs |-> f, ret |-> TRUE]
        valid == validate_file(upd.fs, cfg, new_path)
        calls6 == calls
                  \o (IF cfg.update_metadata
                      THEN <<Call("update", new_path, metadata, upd.ret)>> ELSE <<>>)
    IN IF ~upd.ret
       THEN Outcome(upd.fs, led, calls6, FALSE,
                    [result EXCEPT !.new_path = new_path,
                                   !.errors = Append(@, "Failed to update metadata")])
       ELSE Outcome(upd.fs, led, calls6 \o <<Call("final", new_path, NoTags, valid)>>, FALSE,
                    [result EXCEPT !.new_path = new_path,
                                   !.success = valid,
                                   !.errors = IF valid THEN @
                                              ELSE Append(@, "Final validation failed")])

\* changed: a failed final validation moves the file back to where it was
finish_file_rollback(f, led, cfg, result, new_path, metadata, io, calls) ==
    LET upd == IF cfg.update_metadata
               THEN update_metadata(f, cfg, new_path, metadata, UpdateIo(io))
               ELSE [fs |-> f, ret |-> TRUE]
        warned == IF upd.ret THEN result.warnings
                  ELSE Append(result.warnings, "Failed to update metadata")
        valid == validate_file(upd.fs, cfg, new_path)
        calls7 == calls
                  \o (IF cfg.update_metadata
                      THEN <<Call("update", new_path, metadata, upd.ret)>> ELSE <<>>)
                  \o <<Call("final", new_path, NoTags, valid)>>
        back == WithFile(WithoutFile(upd.fs, new_path), result.original_path, upd.fs[new_path])
    IN IF valid
       THEN Outcome(upd.fs, led, calls7, FALSE,
                    [result EXCEPT !.new_path = new_path, !.warnings = warned, !.success = TRUE])
       ELSE Outcome(back, led, calls7, FALSE,
                    [result EXCEPT !.warnings = warned,
                                   !.errors = Append(@, "Final validation failed")])

\* changed: the final validation is made before the metadata update
finish_file_validate_first(f, led, cfg, result, new_path, metadata, io, calls) ==
    LET valid == validate_file(f, cfg, new_path)
        upd == IF cfg.update_metadata
               THEN update_metadata(f, cfg, new_path, metadata, UpdateIo(io))
               ELSE [fs |-> f, ret |-> TRUE]
        warned == IF upd.ret THEN result.warnings
                  ELSE Append(result.warnings, "Failed to update metadata")
        calls7 == calls
                  \o <<Call("final", new_path, NoTags, valid)>>
                  \o (IF cfg.update_metadata
                      THEN <<Call("update", new_path, metadata, upd.ret)>> ELSE <<>>)
    IN Outcome(upd.fs, led, calls7, FALSE,
               [result EXCEPT !.new_path = new_path,
                              !.warnings = warned,
                              !.success = valid,
                              !.errors = IF valid THEN @ ELSE Append(@, "Final validation failed")])

\* FileProcessor.process_file, steps 6 and 7, on the filesystem f left by the
\* rename: update the metadata (if enabled), then validate the new path
finish_file(f, led, cfg, result, new_path, metadata, io, calls) ==
    LET upd == IF cfg.update_metadata
               THEN update_metadata(f, cfg, new_path, metadata, UpdateIo(io))
               ELSE [fs |-> f, ret |-> TRUE]
        warned == IF upd.ret THEN result.warnings
                  ELSE Append(result.warnings, "Failed to update metadata")
        valid == validate_file(upd.fs, cfg, new_path)
        calls7 == calls
                  \o (IF cfg.update_metadata
                      THEN <<Call("update", new_path, metadata, upd.ret)>> ELSE <<>>)
                  \o <<Call("final", new_path, NoTags, valid)>>
    IN Outcome(upd.fs, led, calls7, FALSE,
               [result EXCEPT !.new_path = new_path,
                              !.warnings = warned,
                              !.success = valid,
                              !.errors = IF valid THEN @ ELSE Append(@, "Final validation failed")])

\* changed: the exception of a failed move leaves process_file
rename_step_propagates(f, led, cfg, result, file_path, io, calls) ==
    LET metadata == extract_metadata(f, cfg, file_path)
        new_filename == generate_filename(cfg, file_path, metadata)
        res3 == [result EXCEPT !.metadata = metadata]
        calls4 == calls \o <<Call("extract", file_path, metadata, TRUE),
                             Call("generate", file_path, metadata, new_filename # <<>>)>>
    IN IF new_filename = <<>>
       THEN Outcome(f, led, calls4, FALSE,
                    [res3 EXCEPT !.errors = Append(@, "Failed to generate new filename")])
       ELSE IF io = "rename"
       THEN Outcome(f, led, calls4 \o <<Call("rename", file_path, NoTags, FALSE)>>, TRUE, res3)
       ELSE LET moved == rename_file(f, file_path, new_filename)
            IN finish_file(moved.fs, led, cfg, res3, moved.ret, metadata, io,
                           calls4 \o <<Call("rename", file_path, NoTags, TRUE)>>)

\* changed: new_path is set to the intended target before the move is made
rename_step_early_path(f, led, cfg, result, file_path, io, calls) ==
    LET metadata == extract_metadata(f, cfg, file_path)
        new_filename == generate_filename(cfg, file_path, metadata)
        res3 == [result EXCEPT !.metadata = metadata]
        calls4 == calls \o <<Call("extract", file_path, metadata, TRUE),
                             Call("generate", file_path, metadata, new_filename # <<>>)>>
    IN IF new_filename = <<>>
       THEN Outcome(f, led, calls4, FALSE,
                    [res3 EXCEPT !.errors = Append(@, "Failed to generate new filename")])
       ELSE IF io = "rename"
       THEN Outcome(f, led, calls4 \o <<Call("rename", file_path, NoTags, FALSE)>>, FALSE,
                    [res3 EXCEPT !.errors = Append(@, "OSError"),
                                 !.new_path = rename_target(f, file_path, new_filename)])
       ELSE LET moved == rename_file(f, file_path, new_filename)
            IN finish_file(moved.fs, led, cfg, res3, moved.ret, metadata, io,
                           calls4 \o <<Call("rename", file_path, NoTags, TRUE)>>)

\* FileProcessor.process_file, steps 3 to 5, on the filesystem f and ledger
\* led left by the backup step
rename_step(f, led, cfg, result, file_path, io, calls) ==
    LET metadata == extract_metadata(f, cfg, file_path)
        new_filename == generate_filename(cfg, file_path, metadata)
        res3 == [result EXCEPT !.metadata = metadata]
        calls4 == calls \o <<Call("extract", file_path, metadata, TRUE),
                             Call("generate", file_path, metadata, new_filename # <<>>)>>
    IN IF new_filename = <<>>
       THEN Outcome(f, led, calls4, FALSE,
                    [res3 EXCEPT !.errors = Append(@, "Failed to generate new filename")])
       ELSE IF io = "rename"
       THEN \* Path.rename raises OSError: caught at the per-file boundary
            Outcome(f, led, calls4 \o <<Call("rename", file_path, NoTags, FALSE)>>, FALSE,
                    [res3 EXCEPT !.errors = Append(@, "OSError")])
       ELSE LET moved == rename_file(f, file_path, new_filename)
            IN finish_file(moved.fs, led, cfg, res3, moved.ret, metadata, io,
                           calls4 \o <<Call("rename", file_path, NoTags, TRUE)>>)

\* changed: the backup is taken before the source is validated
process_file_backup_first(f, led, now, cfg, file_path, io) ==
    LET bk == IF cfg.backup_enabled
              THEN create_backup(f, led, now, cfg, file_path, IF io = "backup" THEN "open" ELSE "no")
              ELSE [fs |-> f, ledger |-> led, ret |-> NoPath]
    IN IF ~validate_file(f, cfg, file_path)
       THEN Outcome(bk.fs, bk.ledger, <<Call("validate", file_path, NoTags, FALSE)>>, FALSE,
                    [NewResult(file_path) EXCEPT !.errors = <<"File validation failed">>])
       ELSE rename_step(bk.fs, bk.ledger, cfg, NewResult(file_path), file_path, io,
                        <<Call("validate", file_path, NoTags, TRUE),
                          Call("backup", file_path, NoTags, bk.ret # NoPath)>>)

\* changed: a backup that fails ends the pipeline with an error
process_file_backup_fatal(f, led, now, cfg, file_path, io) ==
    IF ~validate_file(f, cfg, file_path)
    THEN Outcome(f, led, <<Call("validate", file_path, NoTags, FALSE)>>, FALSE,
                 [NewResult(file_path) EXCEPT !.errors = <<"File validation failed">>])
    ELSE IF cfg.backup_enabled
    THEN LET bk == create_backup(f, led, now, cfg, file_path, IF io = "backup" THEN "open" ELSE "no")
             calls2 == <<Call("validate", file_path, NoTags, TRUE),
                         Call("backup", file_path, NoTags, bk.ret # NoPath)>>
         IN IF bk.ret = NoPath
            THEN Outcome(bk.fs, bk.ledger, calls2, FALSE,
                         [NewResult(file_path) EXCEPT !.errors = <<"Failed to create backup">>])
            ELSE rename_step(bk.fs, bk.ledger, cfg, NewResult(file_path), file_path, io, calls2)
    ELSE rename_step(f, led, cfg, NewResult(file_path), file_path, io,
                     <<Call("validate", file_path, NoTags, TRUE)>>)

\* FileProcessor.process_file: filesystem and ledger after the call, the
\* returned ProcessingResult and the calls it made; raised tells that the call
\* ended in an exception instead of returning (every Exception of the steps
\* is caught at line 114, so it never does).  io names the step whose
\* I/O fails in this call: "ok" (none), "backup", "rename", "update", "corrupt".
process_file(f, led, now, cfg, file_path, io) ==
    IF ~validate_file(f, cfg, file_path)
    THEN Outcome(f, led, <<Call("validate", file_path, NoTags, FALSE)>>, FALSE,
                 [NewResult(file_path) EXCEPT !.errors = <<"File validation failed">>])
    ELSE IF cfg.backup_enabled
    THEN LET bk == create_backup(f, led, now, cfg, file_path, IF io = "backup" THEN "open" ELSE "no")
         IN rename_step(bk.fs, bk.ledger, cfg,
                        [NewResult(file_path) EXCEPT !.warnings =
                            IF bk.ret = NoPath THEN <<"Failed to create backup">> ELSE <<>>],
                        file_path, io,
                        <<Call("validate", file_path, NoTags, TRUE),
                          Call("backup", file_path, NoTags, bk.ret # NoPath)>>)
    ELSE rename_step(f, led, cfg, NewResult(file_path), file_path, io,
                     <<Call("validate", file_path, NoTags, TRUE)>>)

_is_media_file(cfg, p) == lower(suffix(p.name)) \in cfg.supported_keys

\* the files below the processed directory
InTree(f) == {p \in DOMAIN f : p.dir # BackupDir}

\* FileProcessor._find_media_files: the set of files found; rglob yields them
\* directory by directory, in the order the filesystem lists them
MediaFiles(f, cfg) == {p \in InTree(f) : _is_media_file(cfg, p)}

Orders(S) ==
    {o \in [1..Cardinality(S) -> S] :
        /\ \A i, j \in 1..Cardinality(S) : i # j => o[i] # o[j]
        /\ \A i, j, k \in 1..Cardinality(S) :
              (i < j /\ j < k /\ o[i].dir = o[k].dir) => o[j].dir = o[i].dir}

\* changed: only the results of the files that succeeded are kept
append_result_successes(rs, result) == IF result.success THEN Append(rs, result) ELSE rs

\* FileProcessor.process_directory, line 137: results.append(result)
append_result(rs, result) == Append(rs, result)

\* --------------------------------------------------------- initial states
SongMp3 == <<"song", ".", "mp3">>
ABMp3 == <<"A", " ", "-", " ", "B", ".", "mp3">>
ClipMp4Upper == <<"clip", ".", "MP4">>
NotesTxt == <<"notes", ".", "txt">>

NoFiles == [p \in {} |-> 0]
\* no FileProcessor runs beside the one the operations are called on
NoWorkers == [w \in {} |-> 0]
One(p, x) == [q \in {p} |-> x]

\* a/song.mp3: absent, tagged, zero bytes, or without an artist tag
SlotA ==
    {NoFiles,
     One(Path("a", SongMp3), File("mp3", "d1", TagsAB, TRUE)),
     One(Path("a", SongMp3), File("empty", "", NoTags, TRUE)),
     One(Path("a", SongMp3), File("mp3", "d1", TagsTitleOnly, TRUE))}

\* a second file: none; b/song.mp3, readable or not; the name the audio
\* pattern produces; a video with an upper-case extension; a text file; an
\* .mp3 that is not audio
SlotB ==
    {NoFiles,
     One(Path("b", SongMp3), File("mp3", "d2", TagsAB, TRUE)),
     One(Path("b", SongMp3), File("mp3", "d2", TagsAB, FALSE)),
     One(Path("a", ABMp3), File("mp3", "d3", TagsAB, TRUE)),
     One(Path("a", ClipMp4Upper), File("mp4", "d4", NoTags, TRUE)),
     One(Path("a", NotesTxt), File("text", "d5", NoTags, TRUE)),
     One(Path("a", <<"junk", ".", "mp3">>), File("garbage", "d6", NoTags, TRUE))}

InitialFilesystems == {a @@ b : a \in SlotA, b \in SlotB}

NoEvent ==
    [op |-> "none", path |-> NoPath, io |-> "ok", result |-> NewResult(NoPath),
     steps |-> <<>>, calls |-> <<>>, raised |-> FALSE, new_name |-> <<>>, ret_path |-> NoPath, ret_ok |-> FALSE,
     fs_before |-> NoFiles, ledger_before |-> <<>>, now |-> 0,
     max_age_days |-> 0, ret_count |-> 0, store_before |-> [dirs |-> {}, metadata_file |-> NoLedgerFile],
     audio |-> [open |-> "ok", tags |-> NoTags, info |-> NoTags], tags_after |-> NoTags,
     saves |-> 0]

Init ==
    /\ config \in Configs
    /\ fs \in InitialFilesystems
    /\ ledger = <<>>
    /\ clock = 0
    /\ mode = "idle"
    /\ found = <<>>
    /\ queue = <<>>
    /\ results = <<>>
    /\ start_fs = fs
    /\ ops = 0
    /\ faults = 0
    /\ store = [dirs |-> backup_manager_init(config, {p.dir : p \in DOMAIN fs}, NoLedgerFile).dirs,
                metadata_file |-> NoLedgerFile]
    /\ ev = NoEvent
    /\ workers = NoWorkers

\* ---------------------------------------------------------------- actions
IoKinds == {"ok", "backup", "rename", "update", "corrupt"}

\* an I/O failure is injected only into a step the call reaches
Reached(io, steps) ==
    \/ io = "ok"
    \/ faults < MaxFaults /\ \E i \in 1..Len(steps) :
          steps[i] = (IF io = "corrupt" THEN "update" ELSE io)

\* the paths a caller passes: the files of the tree and one that is missing
CallPaths == InTree(fs) \cup {Path("a", <<"gone", ".", "mp3">>)}

FileEvent(p, io, r) ==
    [NoEvent EXCEPT !.op = "process_file", !.path = p, !.io = io, !.result = r.result,
                    !.steps = r.steps, !.calls = r.calls, !.raised = r.raised, !.fs_before = fs, !.ledger_before = ledger,
                    !.store_before = store, !.now = clock]

\* the ledger file after a process_file call: _add_backup_entry saves the
\* ledger when create_backup has added an entry
SavedAfter(file, led_before, led_after) ==
    IF led_after # led_before THEN _save_backup_metadata(file, led_after, "ok") ELSE file

\* process_file(p), called on its own
ProcessFile(p, io) ==
    /\ mode # "dir"
    /\ ops < MaxOps
    /\ LET r == process_file(fs, ledger, clock, config, p, io)
       IN /\ Reached(io, r.steps)
          /\ fs' = r.fs
          /\ ledger' = r.ledger
          /\ store' = [store EXCEPT !.metadata_file = SavedAfter(@, ledger, r.ledger)]
          /\ ev' = FileEvent(p, io, r)
          /\ found' = <<p>>
          /\ results' = IF r.raised THEN <<>> ELSE <<r.result>>
    /\ mode' = "idle"
    /\ queue' = <<>>
    /\ start_fs' = fs
    /\ ops' = ops + 1
    /\ faults' = IF io = "ok" THEN faults ELSE faults + 1
    /\ UNCHANGED <<workers, config, clock>>

\* process_directory: lines 132-133, the list of media files is taken
DirStart(order) ==
    /\ mode # "dir"
    /\ ops < MaxOps
    /\ mode' = "dir"
    /\ found' = order
    /\ queue' = order
    /\ results' = <<>>
    /\ start_fs' = fs
    /\ ops' = ops + 1
    /\ UNCHANGED <<workers, config, fs, ledger, clock, faults, store, ev>>

\* process_directory: lines 135-137, one turn of the loop
DirStep(io) ==
    /\ mode = "dir"
    /\ queue # <<>>
    /\ LET r == process_file(fs, ledger, clock, config, Head(queue), io)
       IN /\ Reached(io, r.steps)
          /\ fs' = r.fs
          /\ ledger' = r.ledger
          /\ store' = [store EXCEPT !.metadata_file = SavedAfter(@, ledger, r.ledger)]
          /\ ev' = FileEvent(Head(queue), io, r)
          /\ results' = IF r.raised THEN results ELSE append_result(results, r.result)
          \* an exception leaving process_file would leave the loop too
          /\ mode' = IF r.raised THEN "crashed" ELSE mode
    /\ queue' = Tail(queue)
    /\ faults' = IF io = "ok" THEN faults ELSE faults + 1
    /\ UNCHANGED <<workers, config, clock, found, start_fs, ops>>

\* process_directory: line 139, return results
DirEnd ==
    /\ mode = "dir"
    /\ queue = <<>>
    /\ mode' = "returned"
    /\ UNCHANGED <<workers, config, fs, ledger, clock, found, queue, results, start_fs, ops, faults,
                   store, ev>>

\* a second passes (the clock is read by create_backup only, so seconds are
\* counted from the first backup)
Tick ==
    /\ clock < MaxClock
    /\ ledger # <<>>
    /\ clock' = clock + 1
    /\ UNCHANGED <<workers, config, fs, ledger, mode, found, queue, results, start_fs, ops, faults,
                   store, ev>>

Next ==
    \/ \E p \in CallPaths, io \in IoKinds : ProcessFile(p, io)
    \/ \E order \in Orders(MediaFiles(fs, config)) : DirStart(order)
    \/ \E io \in IoKinds : DirStep(io)
    \/ DirEnd
    \/ Tick

Spec == Init /\ [][Next]_vars

\* ------------------------------------------------ the backup store alone
\* BackupManager reads processing.backup_enabled only
\* The store copies bytes whatever they are, so the trees it is run on hold
\* a/song.mp3 or not, and as second file none, b/song.mp3 (readable or not)
\* or the file of another name
StoreFilesystems ==
    {a @@ b : a \in {x \in SlotA : \A q \in DOMAIN x : x[q].tags = TagsAB},
              b \in {x \in SlotB : \A q \in DOMAIN x : x[q].tags = TagsAB}}

InitRename ==
    /\ Init
    /\ fs \in StoreFilesystems
    /\ config.supported_keys = {}
    /\ config.backup_enabled
    /\ config.update_metadata
    /\ config.processing_update_metadata

\* the files the store is asked to back up: a/song.mp3 and b/song.mp3, which
\* share a name
InitBackup ==
    /\ InitRename
    /\ \A p \in DOMAIN fs : p.name = SongMp3 /\ fs[p].readable

\* the outcomes of shutil.copy2, and of writing the ledger file
CopyKinds == {"no", "open", "write"}
SaveKinds == {"ok", "open", "write"}

\* create_backup(p); io_fails: the copy fails; save_io: what the write of the
\* ledger file does
CreateBackup(p, io_fails, save_io) ==
    /\ ops < MaxBackupOps
    /\ (io_fails # "no" \/ save_io # "ok") =>
          (faults < MaxFaults /\ config.processing_backup_enabled
              /\ ~(io_fails # "no" /\ save_io # "ok"))
    /\ io_fails # "no" => ~copy_raises(fs, p, FALSE)
    /\ LET r == create_backup(fs, ledger, clock, config, p, io_fails)
       IN /\ save_io # "ok" => r.ret # NoPath
          /\ fs' = r.fs
          /\ ledger' = r.ledger
          /\ store' = [store EXCEPT !.metadata_file =
                          IF r.ret # NoPath THEN _save_backup_metadata(@, r.ledger, save_io) ELSE @]
          /\ ev' = [NoEvent EXCEPT !.op = "create_backup", !.path = p,
                                   !.io = IF io_fails # "no" THEN io_fails ELSE save_io,
                                   !.ret_path = r.ret, !.fs_before = fs,
                                   !.ledger_before = ledger, !.store_before = store,
                                   !.now = clock]
    /\ ops' = ops + 1
    /\ faults' = IF io_fails # "no" \/ save_io # "ok" THEN faults + 1 ELSE faults
    /\ UNCHANGED <<workers, config, clock, mode, found, queue, results, start_fs>>

\* restore_backup(b) and restore_backup(b, to)
RestoreBackup(b, to) ==
    /\ ops < MaxBackupOps
    /\ ops' = ops + 1
    /\ LET r == restore_backup(fs, ledger, b, to, FALSE)
           dest == restore_destination(ledger, b, to)
       IN /\ fs' = r.fs
          /\ store' = [store EXCEPT !.dirs = IF dest = NoPath THEN @ ELSE @ \cup {dest.dir}]
          /\ ev' = [NoEvent EXCEPT !.op = "restore_backup", !.path = b, !.ret_path = to,
                                   !.ret_ok = r.ret, !.fs_before = fs,
                                   !.ledger_before = ledger, !.store_before = store,
                                   !.now = clock]
    /\ UNCHANGED <<workers, config, ledger, clock, mode, found, queue, results, start_fs, faults>>

\* the user changes the bytes of a file of the tree
UserEdits(p) ==
    /\ fs[p].kind # "empty"
    /\ fs[p].data # "edited"
    /\ fs' = [fs EXCEPT ![p].data = "edited"]
    /\ ev' = [NoEvent EXCEPT !.op = "edit", !.path = p, !.fs_before = fs, !.store_before = store]
    /\ UNCHANGED <<workers, config, ledger, clock, mode, found, queue, results, start_fs, ops,
                   faults, store>>

\* cleanup_old_backups(max_age_days); undeletable: the backup files whose
\* unlink raises; save_io: what the write of the ledger file does
CleanupOldBackups(max_age_days, undeletable, save_io) ==
    /\ ops < MaxBackupOps
    /\ (undeletable # {} \/ save_io # "ok") =>
          (faults < MaxFaults /\ config.processing_backup_enabled
              /\ ~(undeletable # {} /\ save_io # "ok"))
    /\ LET r == cleanup_old_backups(fs, ledger, config, max_age_days, undeletable)
       IN /\ fs' = r.fs
          /\ ledger' = r.ledger
          /\ store' = [store EXCEPT !.metadata_file =
                          IF config.processing_backup_enabled
                          THEN _save_backup_metadata(@, r.ledger, save_io) ELSE @]
          /\ ev' = [NoEvent EXCEPT !.op = "cleanup_old_backups",
                                   !.path = IF undeletable = {} THEN NoPath
                                            ELSE CHOOSE b \in undeletable : TRUE,
                                   !.io = IF undeletable # {} THEN "unlink" ELSE save_io,
                                   !.max_age_days = max_age_days, !.ret_count = r.ret,
                                   !.fs_before = fs, !.ledger_before = ledger,
                                   !.store_before = store, !.now = clock]
    /\ ops' = ops + 1
    /\ faults' = IF undeletable # {} \/ save_io # "ok" THEN faults + 1 ELSE faults
    /\ UNCHANGED <<workers, config, clock, mode, found, queue, results, start_fs>>

\* a Backup Store is constructed anew on the same backup directory
Reconstruct ==
    /\ ops < MaxBackupOps
    /\ ops' = ops + 1
    /\ LET r == backup_manager_init(config, store.dirs, store.metadata_file)
       IN /\ ledger' = r.ledger
          /\ store' = [store EXCEPT !.dirs = r.dirs]
    /\ ev' = [NoEvent EXCEPT !.op = "construct", !.fs_before = fs, !.ledger_before = ledger,
                             !.store_before = store, !.now = clock]
    /\ UNCHANGED <<workers, config, fs, clock, mode, found, queue, results, start_fs, faults>>

\* the default of the max_age_days parameter
DefaultMaxAgeDays == 30
\* the age in days of a file written yesterday: a backup of exactly that age
\* is at the cutoff of cleanup_old_backups(FreshAgeDays), not older than it
FreshAgeDays == 1
MaxAges == {0, FreshAgeDays, DefaultMaxAgeDays}

\* the backup paths a caller passes: every file of the backup directory, every
\* path the ledger names, and one that is neither
BackupPaths ==
    {p \in DOMAIN fs : p.dir = BackupDir}
        \cup {ledger[i].backup_path : i \in 1..Len(ledger)}
        \cup {Path(BackupDir, SongMp3)}
RestoreTargets == {NoPath, Path("b", <<"restored", ".", "mp3">>)}

\* at most one backup file of the ledger refuses to be removed
Undeletables ==
    {{}} \cup {{ledger[i].backup_path} : i \in {j \in 1..Len(ledger) : exists(fs, ledger[j].backup_path)}}

NextBackup ==
    \/ \E p \in CallPaths, io_fails \in CopyKinds, save_io \in SaveKinds :
          CreateBackup(p, io_fails, save_io)
    \/ \E b \in BackupPaths, to \in RestoreTargets : RestoreBackup(b, to)
    \/ \E p \in InTree(fs) : UserEdits(p)
    \/ \E d \in MaxAges, u \in Undeletables, save_io \in SaveKinds :
          CleanupOldBackups(d, u, save_io)
    \/ Reconstruct
    \/ Tick

SpecBackup == InitBackup /\ [][NextBackup]_vars

\* ------------------------------------------------- the file renamer alone
\* rename_file(old_path, new_name), for a file that exists
RenameFile(old_path, new_name) ==
    /\ ops < MaxRenames
    /\ LET r == rename_file(fs, old_path, new_name)
       IN /\ fs' = r.fs
          /\ ev' = [NoEvent EXCEPT !.op = "rename_file", !.path = old_path,
                                   !.new_name = new_name, !.ret_path = r.ret,
                                   !.fs_before = fs]
    /\ ops' = ops + 1
    /\ UNCHANGED <<workers, config, ledger, clock, mode, found, queue, results, start_fs, faults,
                   store>>

NewNames == {ABMp3, SongMp3, <<"A", " ", "-", " ", "B", "_", "1", ".", "mp3">>, <<"README">>}

NextRename == \E p \in InTree(fs), n \in NewNames : RenameFile(p, n)

SpecRename == InitRename /\ [][NextRename]_vars

\* --------------------------------------------------------------- names
\* generate_filename and get_unique_filename on their own: the naming patterns
\* a configuration may hold, the tag values an extraction may yield, and a
\* directory in which a name and its numbered variants are taken or free
TitlePattern == <<Field("title")>>

NameConfigs ==
    {[c EXCEPT !.audio_pattern = a, !.video_pattern = v] :
        c \in {x \in Configs : /\ x.supported_keys = {}
                                /\ x.backup_enabled /\ x.processing_backup_enabled
                                /\ x.update_metadata /\ x.processing_update_metadata},
        a \in {DefaultAudioPattern, TitlePattern},
        v \in {DefaultVideoPattern, TitlePattern}}

Titles == {<<>>, <<" ">>, <<".">>, <<"B">>, <<"B", " ">>, <<"/">>, <<"?", ".">>}

NameMetadata ==
    {NoTags}
      \cup {[f \in {"title"} |-> t] : t \in Titles}
      \cup {[f \in {"artist", "title"} |-> IF f = "artist" THEN a ELSE t] :
                a \in {<<>>, <<"A">>}, t \in Titles}
      \cup {[f \in {"title", "year"} |-> IF f = "year" THEN <<"1999">> ELSE t] : t \in Titles}

\* an audio file, one whose name holds a character sanitization replaces, a
\* video with an upper-case extension, and three names of neither kind
NamePaths ==
    {Path("a", SongMp3), Path("a", <<"so", ":", "ng", ".", "mp3">>), Path("a", ClipMp4Upper),
     Path("a", <<" ", "no", "?", "tes", ".", "txt">>), Path("a", <<".", "mp3">>),
     Path("a", <<"README">>)}

TakenNames ==
    {Path("a", SongMp3)} \cup {Numbered(Path("a", SongMp3), k) : k \in 1..MaxCounter}

NameFilesystems ==
    {[p \in S |-> File("mp3", "d1", TagsAB, TRUE)] : S \in SUBSET TakenNames}

UniquePaths == TakenNames \cup {Path("a", <<"README">>)}

InitNames ==
    /\ config \in NameConfigs
    /\ fs \in NameFilesystems
    /\ ledger = <<>>
    /\ clock = 0
    /\ mode = "idle"
    /\ found = <<>>
    /\ queue = <<>>
    /\ results = <<>>
    /\ start_fs = fs
    /\ ops = 0
    /\ faults = 0
    /\ store = [dirs |-> backup_manager_init(config, {p.dir : p \in DOMAIN fs}, NoLedgerFile).dirs,
                metadata_file |-> NoLedgerFile]
    /\ ev = NoEvent
    /\ workers = NoWorkers

\* FileRenamer.generate_filename(file_path, metadata)
GenerateFilename(file_path, metadata) ==
    /\ ev' = [NoEvent EXCEPT !.op = "generate_filename", !.path = file_path,
                             !.result = [NewResult(file_path) EXCEPT !.metadata = metadata],
                             !.new_name = generate_filename(config, file_path, metadata),
                             !.fs_before = fs]
    /\ UNCHANGED <<workers, config, fs, ledger, clock, mode, found, queue, results, start_fs, ops,
                   faults, store>>

\* get_unique_filename(file_path)
GetUniqueFilename(file_path) ==
    /\ ev' = [NoEvent EXCEPT !.op = "get_unique_filename", !.path = file_path,
                             !.ret_path = get_unique_filename(fs, file_path),
                             !.fs_before = fs]
    /\ UNCHANGED <<workers, config, fs, ledger, clock, mode, found, queue, results, start_fs, ops,
                   faults, store>>

NextNames ==
    \/ \E p \in NamePaths, metadata \in NameMetadata : GenerateFilename(p, metadata)
    \/ \E p \in UniquePaths : GetUniqueFilename(p)

SpecNames == InitNames /\ [][NextNames]_vars

\* ----------------------------------------------------------- audio codec
\* AudioProcessor.extract_metadata and update_metadata on their own, on
\* containers that hold a field under its plain name, under its frame name,
\* under both or not at all, with no value, an empty text or two texts
TagLists(key) ==
    IF key \in DOMAIN common_tags THEN {<<>>, <<"">>, <<"X", "Y">>}
    ELSE {<<>>, <<"">>, <<"T", "U">>}

FunctionsOn(keys) ==
    UNION {{t \in [K -> UNION {TagLists(k) : k \in K}] : \A k \in K : t[k] \in TagLists(k)} :
              K \in SUBSET keys}

TagContainers == FunctionsOn({"title", "TIT2", "artist", "TPE1"})
FrameContainers == FunctionsOn({"TIT2", "TPE1"})

StreamInfos ==
    {NoTags,
     [a \in {"length", "bitrate"} |->
         IF a = "length" THEN [type |-> "int", text |-> "300"]
         ELSE [type |-> "int", text |-> "320000"]]}

AudioFiles ==
    {[open |-> "ok", tags |-> t, info |-> i] : t \in TagContainers, i \in StreamInfos}
        \cup {[open |-> o, tags |-> NoTags, info |-> NoTags] : o \in {"none", "raise"}}

\* the metadata handed to update_metadata: nothing, a title, a title and a
\* year-like number as artist, an empty title
NewMetadata ==
    {NoTags,
     [f \in {"title"} |-> [type |-> "str", text |-> "New"]],
     [f \in {"title", "artist"} |->
         IF f = "title" THEN [type |-> "str", text |-> "New"] ELSE [type |-> "int", text |-> "7"]],
     [f \in {"title", "artist"} |->
         IF f = "title" THEN [type |-> "str", text |-> ""] ELSE [type |-> "str", text |-> "A"]]}

InitCodec ==
    /\ InitNames
    /\ fs = NoFiles
    /\ config.audio_pattern = DefaultAudioPattern
    /\ config.video_pattern = DefaultVideoPattern

\* AudioProcessor.extract_metadata(file_path)
AudioExtract(audio) ==
    /\ ev' = [NoEvent EXCEPT !.op = "audio_extract", !.audio = audio,
                             !.result.metadata = AudioProcessor_extract_metadata(audio)]
    /\ UNCHANGED <<workers, config, fs, ledger, clock, mode, found, queue, results, start_fs, ops,
                   faults, store>>

\* AudioProcessor.update_metadata(file_path, metadata)
AudioUpdate(audio, metadata, io) ==
    /\ LET r == AudioProcessor_update_metadata(audio, metadata, io)
       IN ev' = [NoEvent EXCEPT !.op = "audio_update", !.audio = audio, !.io = io,
                                !.result.metadata = metadata, !.tags_after = r.tags,
                                !.saves = r.saves, !.ret_ok = r.ret]
    /\ UNCHANGED <<workers, config, fs, ledger, clock, mode, found, queue, results, start_fs, ops,
                   faults, store>>

NextCodec ==
    \/ \E audio \in AudioFiles : AudioExtract(audio)
    \/ \E audio \in {x \in AudioFiles : x.tags \in FrameContainers /\ x.info = NoTags},
          metadata \in NewMetadata, io \in {"ok", "fail"} :
          AudioUpdate(audio, metadata, io)

SpecCodec == InitCodec /\ [][NextCodec]_vars

\* ------------------------------------------ the metadata gateway alone
MaxCalls == 2

SongMp3Upper == <<"song", ".", "MP3">>

\* a/song.mp3 tagged, with a title only, or not an audio file at all; an
\* .MP3 and an .MP4 written in upper case; a text file that holds audio
GatewayFilesystems ==
    {(One(Path("a", SongMp3), x)
        @@ One(Path("a", SongMp3Upper), File("mp3", "d2", TagsTitleOnly, TRUE))
        @@ One(Path("a", ClipMp4Upper), File("mp4", "d4", TagsAB, TRUE))
        @@ One(Path("a", NotesTxt), File("mp3", "d5", TagsAB, TRUE))) :
     x \in {File("mp3", "d1", TagsAB, TRUE), File("mp3", "d1", TagsTitleOnly, TRUE),
            File("garbage", "d6", NoTags, TRUE)}}

\* the metadata mappings handed to update_metadata
GatewayMetadata == {TagsAB, [f \in {"title"} |-> <<"N">>]}

InitGateway ==
    /\ config \in {c \in Configs : /\ c.supported_keys = {}
                                    /\ c.backup_enabled /\ c.processing_backup_enabled
                                    /\ c.update_metadata /\ c.processing_update_metadata}
    /\ fs \in GatewayFilesystems
    /\ ledger = <<>>
    /\ clock = 0
    /\ mode = "idle"
    /\ found = <<>>
    /\ queue = <<>>
    /\ results = <<>>
    /\ start_fs = fs
    /\ ops = 0
    /\ faults = 0
    /\ store = [dirs |-> backup_manager_init(config, {p.dir : p \in DOMAIN fs}, NoLedgerFile).dirs,
                metadata_file |-> NoLedgerFile]
    /\ ev = NoEvent
    /\ workers = NoWorkers

\* the codec MetadataHandler hands the call to
Dispatched(cfg, p) ==
    IF _is_audio(cfg, p) THEN <<"audio">>
    ELSE IF _is_video(cfg, p) THEN <<"video">>
    ELSE <<>>

\* MetadataHandler.extract_metadata(file_path)
GatewayExtract(p) ==
    /\ ops < MaxCalls
    /\ ev' = [NoEvent EXCEPT !.op = "extract_metadata", !.path = p, !.fs_before = fs,
                             !.calls = Dispatched(config, p),
                             !.result.metadata = extract_metadata(fs, config, p)]
    /\ ops' = ops + 1
    /\ UNCHANGED <<workers, config, fs, ledger, clock, mode, found, queue, results, start_fs,
                   faults, store>>

\* MetadataHandler.update_metadata(file_path, metadata)
GatewayUpdate(p, metadata, io) ==
    /\ ops < MaxCalls
    /\ io # "ok" => faults < MaxFaults /\ _is_audio(config, p) /\ MutagenReads(fs[p])
    /\ LET r == update_metadata(fs, config, p, metadata, io)
       IN /\ fs' = r.fs
          /\ ev' = [NoEvent EXCEPT !.op = "update_metadata", !.path = p, !.io = io,
                                   !.fs_before = fs, !.calls = Dispatched(config, p),
                                   !.result.metadata = metadata, !.ret_ok = r.ret]
    /\ ops' = ops + 1
    /\ faults' = IF io = "ok" THEN faults ELSE faults + 1
    /\ UNCHANGED <<workers, config, ledger, clock, mode, found, queue, results, start_fs, store>>

NextGateway ==
    \/ \E p \in DOMAIN fs : GatewayExtract(p)
    \/ \E p \in DOMAIN fs, metadata \in GatewayMetadata, io \in {"ok", "fail", "corrupt"} :
          GatewayUpdate(p, metadata, io)

SpecGateway == InitGateway /\ [][NextGateway]_vars

\* ------------------------------------- file processors running side by side
\* Two FileProcessor instances (two runs of the program, or two workers of a
\* parallel run) on one tree and one backup directory.  Each has its own
\* BackupManager, whose ledger was loaded when it was constructed.  A
\* statement of process_file that calls a component is one step; nothing in
\* process_file or in the components waits for another instance.
Workers == {"w1", "w2"}

TuneMp3 == <<"tune", ".", "mp3">>

ParallelFilesystems ==
    {One(Path("a", SongMp3), File("mp3", "d1", t, TRUE))
        @@ One(Path("b", TuneMp3), File("mp3", "d2", TagsAB, TRUE)) :
     t \in {TagsAB, TagsTitleOnly}}

\* a FileProcessor after __init__
NewWorker(cfg, dirs, file) ==
    [pc |-> "ready", path |-> NoPath,
     backup_metadata |-> backup_manager_init(cfg, dirs, file).ledger,
     backup_path |-> NoPath, metadata |-> NoTags, result |-> NewResult(NoPath)]

InitParallel ==
    /\ config \in {c \in Configs : /\ c.supported_keys = {}
                                    /\ c.backup_enabled /\ c.processing_backup_enabled
                                    /\ c.update_metadata = c.processing_update_metadata}
    /\ fs \in ParallelFilesystems
    /\ ledger = <<>>
    /\ clock = 0
    /\ mode = "idle"
    /\ found = <<>>
    /\ queue = <<>>
    /\ results = <<>>
    /\ start_fs = fs
    /\ ops = 0
    /\ faults = 0
    /\ store = [dirs |-> backup_manager_init(config, {p.dir : p \in DOMAIN fs}, NoLedgerFile).dirs,
                metadata_file |-> NoLedgerFile]
    /\ ev = NoEvent
    /\ workers = [w \in Workers |-> NewWorker(config, store.dirs, store.metadata_file)]

\* process_file, lines 60-74: the result is initialized and the file validated
WorkerValidate(w, p) ==
    /\ workers[w].pc = "ready"
    /\ workers' = [workers EXCEPT ![w] =
          IF validate_file(fs, config, p)
          THEN [@ EXCEPT !.pc = "backup", !.path = p, !.result = NewResult(p)]
          ELSE [@ EXCEPT !.pc = "done", !.path = p,
                         !.result = [NewResult(p) EXCEPT !.errors = <<"File validation failed">>]]]
    /\ UNCHANGED <<config, fs, ledger, clock, mode, found, queue, results, start_fs, ops,
                   faults, store, ev>>

\* lines 76-80: create_backup copies the file, appends the entry to the ledger
\* this instance holds and writes that ledger over the ledger file
WorkerBackup(w) ==
    /\ workers[w].pc = "backup"
    /\ LET me == workers[w]
           bk == IF config.backup_enabled
                 THEN create_backup(fs, me.backup_metadata, clock, config, me.path, "no")
                 ELSE [fs |-> fs, ledger |-> me.backup_metadata, ret |-> NoPath]
       IN /\ fs' = bk.fs
          /\ store' = [store EXCEPT !.metadata_file = SavedAfter(@, me.backup_metadata, bk.ledger)]
          /\ workers' = [workers EXCEPT ![w] =
                [@ EXCEPT !.pc = "extract", !.backup_metadata = bk.ledger,
                          !.backup_path = bk.ret,
                          !.result.warnings =
                              IF config.backup_enabled /\ bk.ret = NoPath
                              THEN <<"Failed to create backup">> ELSE <<>>]]
    /\ UNCHANGED <<config, ledger, clock, mode, found, queue, results, start_fs, ops,
                   faults, ev>>

\* lines 82-84: extract_metadata; the codec answers {} for a file it cannot open
WorkerExtract(w) ==
    /\ workers[w].pc = "extract"
    /\ LET me == workers[w]
           metadata == IF exists(fs, me.path) THEN extract_metadata(fs, config, me.path)
                       ELSE NoTags
       IN workers' = [workers EXCEPT ![w] =
             [@ EXCEPT !.pc = "rename", !.metadata = metadata, !.result.metadata = metadata]]
    /\ UNCHANGED <<config, fs, ledger, clock, mode, found, queue, results, start_fs, ops,
                   faults, store, ev>>

\* lines 86-98: generate_filename and rename_file; Path.rename of a file that
\* is no longer there raises, which ends the pipeline at line 114
WorkerRename(w) ==
    /\ workers[w].pc = "rename"
    /\ LET me == workers[w]
           new_filename == generate_filename(config, me.path, me.metadata)
       IN IF new_filename = <<>>
          THEN /\ workers' = [workers EXCEPT ![w] =
                     [@ EXCEPT !.pc = "done",
                               !.result.errors = Append(@, "Failed to generate new filename")]]
               /\ fs' = fs
          ELSE IF ~exists(fs, me.path)
          THEN /\ workers' = [workers EXCEPT ![w] =
                     [@ EXCEPT !.pc = "done", !.result.errors = Append(@, "FileNotFoundError")]]
               /\ fs' = fs
          ELSE /\ fs' = rename_file(fs, me.path, new_filename).fs
               /\ workers' = [workers EXCEPT ![w] =
                     [@ EXCEPT !.pc = "update",
                               !.result.new_path = rename_file(fs, me.path, new_filename).ret]]
    /\ UNCHANGED <<config, ledger, clock, mode, found, queue, results, start_fs, ops,
                   faults, store, ev>>

\* lines 100-104: update_metadata on the new path
WorkerUpdate(w) ==
    /\ workers[w].pc = "update"
    /\ LET me == workers[w]
           upd == IF ~config.update_metadata THEN [fs |-> fs, ret |-> TRUE]
                  ELSE IF exists(fs, me.result.new_path)
                  THEN update_metadata(fs, config, me.result.new_path, me.metadata, "ok")
                  ELSE [fs |-> fs, ret |-> FALSE]
       IN /\ fs' = upd.fs
          /\ workers' = [workers EXCEPT ![w] =
                [@ EXCEPT !.pc = "final",
                          !.result.warnings =
                              IF upd.ret THEN @ ELSE Append(@, "Failed to update metadata")]]
    /\ UNCHANGED <<config, ledger, clock, mode, found, queue, results, start_fs, ops,
                   faults, store, ev>>

\* lines 106-118: the final validation, and the result is returned
WorkerFinal(w) ==
    /\ workers[w].pc = "final"
    /\ workers' = [workers EXCEPT ![w] =
          IF validate_file(fs, config, workers[w].result.new_path)
          THEN [@ EXCEPT !.pc = "done", !.result.success = TRUE]
          ELSE [@ EXCEPT !.pc = "done",
                         !.result.errors = Append(@, "Final validation failed")]]
    /\ UNCHANGED <<config, fs, ledger, clock, mode, found, queue, results, start_fs, ops,
                   faults, store, ev>>

NextParallel ==
    \E w \in Workers :
        \/ \E p \in InTree(fs) : WorkerValidate(w, p)
        \/ WorkerBackup(w)
        \/ WorkerExtract(w)
        \/ WorkerRename(w)
        \/ WorkerUpdate(w)
        \/ WorkerFinal(w)

SpecParallel == InitParallel /\ [][NextParallel]_vars

\* ============================================================ properties
Has(seq, x) == \E i \in 1..Len(seq) : seq[i] = x

\* the last call of process_file, and whether its source passed validation
FileReturned == ev.op = "process_file"
SourceValid == validate_file(ev.fs_before, config, ev.path)

\* the configuration enables backups, for the pipeline and for the store
BackupsEnabled == config.backup_enabled /\ config.processing_backup_enabled

\* a run (process_file on its own, or process_directory) has returned
RunEnded == ops > 0 /\ mode # "dir"

\* the files of the backup directory
BackupFiles(f) == [q \in {x \in DOMAIN f : x.dir = BackupDir} |-> f[q]]

\* the pattern of the file's kind has a placeholder the extracted metadata lacks
PlaceholderMissing(f, cfg, p) ==
    /\ _is_audio(cfg, p) \/ _is_video(cfg, p)
    /\ MissingKeys(IF _is_audio(cfg, p) THEN cfg.audio_pattern ELSE cfg.video_pattern,
                   extract_metadata(f, cfg, p)) # {}

\* C1: with backups enabled, at the end of a run every file that was renamed
\* (and so possibly retagged) without a "Failed to create backup" warning has a
\* ledger entry for its original path whose backup file holds the content the
\* file had before the run.
C1_BackupHoldsOriginal ==
    (RunEnded /\ BackupsEnabled) =>
        \A i \in 1..Len(results) :
            (results[i].new_path # NoPath /\ ~Has(results[i].warnings, "Failed to create backup"))
            => \E k \in 1..Len(ledger) :
                  /\ ledger[k].original_path = results[i].original_path
                  /\ exists(fs, ledger[k].backup_path)
                  /\ Content(fs[ledger[k].backup_path]) = Content(start_fs[results[i].original_path])

\* C2: restore_backup(b) without an override, for a b that create_backup(p)
\* returned, returns true and leaves p with the content it had at that
\* create_backup call.
C2_RoundTrip ==
    (ev.op = "restore_backup" /\ ev.ret_path = NoPath
        /\ \E k \in 1..Len(ledger) : ledger[k].backup_path = ev.path)
    => /\ ev.ret_ok
       /\ \A k \in 1..Len(ledger) :
             ledger[k].backup_path = ev.path =>
                /\ exists(fs, ledger[k].original_path)
                /\ Content(fs[ledger[k].original_path]) = ledger[k].file_hash

\* C3: when a placeholder of the kind's pattern is missing from the extracted
\* metadata, process_file records "Failed to generate new filename", returns
\* success=false with new_path unset, and the file is still at its original
\* path (no rename).
C3_GenerationFailureIsFatal ==
    (FileReturned /\ ev.io = "ok" /\ SourceValid
        /\ PlaceholderMissing(ev.fs_before, config, ev.path))
    => /\ Has(ev.result.errors, "Failed to generate new filename")
       /\ ~ev.result.success
       /\ ev.result.new_path = NoPath
       /\ exists(fs, ev.path)
       /\ InTree(fs) = InTree(ev.fs_before)

\* C4: when validation of the source fails, process_file returns success=false
\* with errors exactly <<"File validation failed">>, no warnings, no new_path
\* and no metadata, and leaves the filesystem and the ledger as they were.
C4_ValidationFailureAborts ==
    (FileReturned /\ ~SourceValid)
    => /\ ev.result = [NewResult(ev.path) EXCEPT !.errors = <<"File validation failed">>]
       /\ fs = ev.fs_before
       /\ ledger = ev.ledger_before

C4_Witness ==
    /\ FileReturned /\ ~SourceValid /\ BackupsEnabled
    /\ exists(ev.fs_before, ev.path)
    /\ ev.fs_before[ev.path].kind = "garbage"

\* C5: success=true only if the source validated, a new filename was generated
\* (no placeholder missing), the rename completed and the file at new_path
\* passes validation.
C5_SuccessOnlyIfAllSteps ==
    (FileReturned /\ ev.result.success)
    => /\ SourceValid
       /\ ~PlaceholderMissing(ev.fs_before, config, ev.path)
       /\ ev.result.new_path # NoPath
       /\ exists(fs, ev.result.new_path)
       /\ ~exists(fs, ev.path) \/ ev.result.new_path = ev.path
       /\ validate_file(fs, config, ev.result.new_path)

\* C6: in every returned ProcessingResult, success holds exactly when no error
\* was recorded (warnings do not count).
ErrorsIffFailure(r) == (r.errors # <<>>) <=> ~r.success

C6_ErrorsIffNotSuccess ==
    /\ FileReturned => ErrorsIffFailure(ev.result)
    /\ \A i \in 1..Len(results) : ErrorsIffFailure(results[i])

C6_Witness ==
    /\ FileReturned
    /\ ev.result.success
    /\ ev.result.warnings # <<>>

\* C7: rename_file moves the file to parent/new_name when that name is free,
\* otherwise to parent/stem_k.ext for the smallest k >= 1 that is free; the
\* target did not exist before, the source is gone, the target holds the
\* source's file and every other file is as it was.
C7_RenameNeverOverwrites ==
    ev.op = "rename_file" =>
        LET old == ev.path
            cand == Path(old.dir, ev.new_name)
            target == ev.ret_path
            before == ev.fs_before
        IN /\ ~exists(before, cand) => target = cand
           /\ exists(before, cand) =>
                \E k \in 1..(Cardinality(DOMAIN before) + 1) :
                    /\ target = Numbered(cand, k)
                    /\ \A j \in 1..(k - 1) : exists(before, Numbered(cand, j))
           /\ ~exists(before, target)
           /\ ~exists(fs, old)
           /\ exists(fs, target) /\ fs[target] = before[old]
           /\ DOMAIN fs = ((DOMAIN before) \ {old}) \cup {target}
           /\ \A q \in (DOMAIN before) \ {old} : fs[q] = before[q]

\* "A - B.mp3" is taken, the file goes to "A - B_1.mp3"
C7_Witness ==
    /\ ev.op = "rename_file"
    /\ ev.new_name = ABMp3
    /\ exists(ev.fs_before, Path(ev.path.dir, ABMp3))
    /\ ev.ret_path = Path(ev.path.dir, <<"A", " ", "-", " ", "B", "_", "1", ".", "mp3">>)

\* C8: process_directory returns one result per discovered file, in discovery
\* order; while the loop runs the results so far are those of the files
\* processed so far, and no file's pipeline makes the loop end early.
C8_OneResultPerFile ==
    /\ mode \in {"dir", "returned"} =>
          /\ Len(results) + Len(queue) = Len(found)
          /\ \A i \in 1..Len(results) : results[i].original_path = found[i]
          /\ \A i \in 1..Len(queue) : queue[i] = found[Len(results) + i]
    /\ mode = "returned" => Len(results) = Len(found)
    /\ mode # "crashed"

\* one valid and one zero-byte file: two results, the zero-byte one failed
C8_Witness ==
    /\ mode = "returned"
    /\ Len(results) = 2
    /\ \E i, j \in 1..2 :
          /\ results[i].success
          /\ ~results[j].success
          /\ results[j].errors = <<"File validation failed">>
          /\ start_fs[results[j].original_path].kind = "empty"

\* C9: process_directory discovers exactly the files of the tree whose
\* lower-cased extension is in the configured audio or video extension set.
C9_DiscoveryByKind ==
    mode \in {"dir", "returned"} =>
        {found[i] : i \in 1..Len(found)} =
            {p \in InTree(start_fs) : _is_audio(config, p) \/ _is_video(config, p)}

\* C10: with processing.backup_enabled false, process_file creates no backup
\* file, adds no ledger entry and records no "Failed to create backup" warning.
C10_NoBackupWhenDisabled ==
    (FileReturned /\ ~config.processing_backup_enabled)
    => /\ BackupFiles(fs) = BackupFiles(ev.fs_before)
       /\ ledger = ev.ledger_before
       /\ ~Has(ev.result.warnings, "Failed to create backup")

\* how often x occurs in seq
Count(seq, x) == Cardinality({i \in 1..Len(seq) : seq[i] = x})

\* the last process_file call made the call `step`, and it returned ok
Called(step) == \E i \in 1..Len(ev.calls) : ev.calls[i].step = step
CalledWith(step, ok) == \E i \in 1..Len(ev.calls) : ev.calls[i].step = step /\ ev.calls[i].ok = ok

\* every step of the pipeline in order, the update only if it is switched on
AllSteps ==
    <<"validate", "backup", "extract", "generate", "rename">>
    \o (IF config.update_metadata THEN <<"update">> ELSE <<>>) \o <<"final">>

\* C11: when the backup step runs and create_backup returns None, process_file
\* records the warning "Failed to create backup" exactly once and no error for
\* it, and goes on: extraction and filename generation run, and when no later
\* step fails on its own every step up to the final validation runs and the
\* result is the one the final validation gives (success when it passes).
C11_BackupFailureNonFatal ==
    (FileReturned /\ CalledWith("backup", FALSE))
    => /\ Count(ev.result.warnings, "Failed to create backup") = 1
       /\ ev.result.warnings[1] = "Failed to create backup"
       /\ ~Has(ev.result.errors, "Failed to create backup")
       /\ Called("extract") /\ Called("generate")
       /\ ev.io \in {"ok", "backup"} =>
             /\ ev.steps = AllSteps
             /\ ev.result.new_path # NoPath
             /\ ev.result.success = validate_file(fs, config, ev.result.new_path)
             /\ ev.result.errors = IF ev.result.success THEN <<>>
                                   ELSE <<"Final validation failed">>

\* the copy failed, the file was still renamed and the result is a success
C11_Witness ==
    /\ FileReturned /\ CalledWith("backup", FALSE)
    /\ ev.io = "backup"
    /\ config.processing_backup_enabled
    /\ ev.result.success
    /\ exists(fs, ev.result.new_path)
    /\ BackupFiles(fs) = BackupFiles(ev.fs_before)

\* C12: when the move of the rename step fails, process_file records the error
\* "Failed to rename file", returns success=false with new_path unset, and
\* makes neither the metadata update nor the final validation.
C12_RenameFailureIsFatal ==
    (FileReturned /\ CalledWith("rename", FALSE))
    => /\ Has(ev.result.errors, "Failed to rename file")
       /\ ~ev.result.success
       /\ ev.result.new_path = NoPath
       /\ ~Called("update") /\ ~Called("final")

\* C13: when update_metadata returns false after the rename, process_file
\* records the warning "Failed to update metadata" once and no error for it,
\* the file stays at new_path (with its old bytes when nothing was written),
\* the final validation still runs, and success is what that validation gives.
C13_UpdateFailureNonFatal ==
    (FileReturned /\ CalledWith("update", FALSE))
    => /\ Count(ev.result.warnings, "Failed to update metadata") = 1
       /\ ~Has(ev.result.errors, "Failed to update metadata")
       /\ ev.result.new_path # NoPath
       /\ exists(fs, ev.result.new_path)
       /\ ev.io # "corrupt" => fs[ev.result.new_path] = ev.fs_before[ev.path]
       /\ ev.steps[Len(ev.steps)] = "final"
       /\ ev.result.success = validate_file(fs, config, ev.result.new_path)
       /\ ev.result.errors = IF ev.result.success THEN <<>> ELSE <<"Final validation failed">>

\* the tag write of an audio file failed, the renamed file is a success
C13_Witness ==
    /\ FileReturned /\ CalledWith("update", FALSE)
    /\ ev.io = "update"
    /\ _is_audio(config, ev.path)
    /\ ev.result.success
    /\ ev.result.new_path = Path("a", ABMp3)
    /\ ev.result.warnings = <<"Failed to update metadata">>

\* C14: when the final validation of the file at new_path fails, process_file
\* records the error "Final validation failed" and returns success=false with
\* new_path set; the file is at new_path and not back at its original path,
\* and no other file of the tree is touched.
C14_NoRollback ==
    (FileReturned /\ CalledWith("final", FALSE))
    => /\ ev.result.errors = <<"Final validation failed">>
       /\ ~ev.result.success
       /\ ev.result.new_path # NoPath
       /\ ev.result.new_path # ev.path
       /\ exists(fs, ev.result.new_path)
       /\ ~exists(fs, ev.path)
       /\ \A q \in InTree(ev.fs_before) : q # ev.path => (exists(fs, q) /\ fs[q] = ev.fs_before[q])

\* the tag write left the renamed file unreadable as audio, with a backup at hand
C14_Witness ==
    /\ FileReturned /\ CalledWith("final", FALSE)
    /\ CalledWith("backup", TRUE)
    /\ fs[ev.result.new_path].kind = "garbage"
    /\ ev.result.new_path = Path("a", ABMp3)

\* C15: process_file always returns: an exception that leaves a step (here the
\* OSError of a failed move) is caught, its text is recorded as the last error
\* of the result, which has success=false; no call ends in an exception and no
\* directory loop is left through one.
C15_NoExceptionEscapes ==
    /\ ev.op = "process_file" =>
          /\ ~ev.raised
          /\ results # <<>> => results[Len(results)] = ev.result
          /\ ev.result.original_path = ev.path
    /\ (ev.op = "process_file" /\ CalledWith("rename", FALSE)) =>
          /\ ev.result.errors = <<"OSError">>
          /\ ~ev.result.success
          /\ fs = ev.fs_before \/ CalledWith("backup", TRUE)
    /\ mode # "crashed"

\* a move failed in the middle of a directory run, which went on to its end
C15_Witness ==
    /\ mode = "returned"
    /\ Len(results) = 2
    /\ results[1].errors = <<"OSError">>
    /\ results[2].success

\* the pipeline's steps in the order of the data flow, and a step's place in it
StepOrder == <<"validate", "backup", "extract", "generate", "rename", "update", "final">>
Rank(step) == CHOOSE i \in 1..Len(StepOrder) : StepOrder[i] = step

\* the configuration leaves the step out
Skipped(step) ==
    \/ step = "backup" /\ ~config.backup_enabled
    \/ step = "update" /\ ~config.update_metadata

\* C16: the steps of every process_file call occur in the order validate,
\* backup, extract, generate, rename, update, final validate, each at most once
\* and only after every earlier step that is not skipped; every step before the
\* rename is handed the original path, the backup file holds the bytes the file
\* had before the call (it is copied before the rename and the tag rewrite), and
\* the update and the final validation are made on new_path, the validation
\* judging the file as the update left it.
C16_StepOrder ==
    FileReturned =>
        /\ ev.steps # <<>> /\ ev.steps[1] = "validate"
        /\ \A i, j \in 1..Len(ev.steps) : i < j => Rank(ev.steps[i]) < Rank(ev.steps[j])
        /\ \A i \in 1..Len(ev.steps) : \A k \in 1..(Rank(ev.steps[i]) - 1) :
              Called(StepOrder[k]) \/ Skipped(StepOrder[k])
        /\ \A i \in 1..Len(ev.calls) :
              ev.calls[i].path = IF Rank(ev.calls[i].step) <= Rank("rename")
                                 THEN ev.path ELSE ev.result.new_path
        /\ CalledWith("backup", TRUE) =>
              /\ exists(fs, backup_name(ev.path, ev.now))
              /\ fs[backup_name(ev.path, ev.now)] = ev.fs_before[ev.path]
        /\ Called("final") =>
              CalledWith("final", validate_file(fs, config, ev.result.new_path))

\* all seven steps ran: the backup holds the old tags, the renamed file the new
C16_Witness ==
    /\ FileReturned
    /\ ev.steps = StepOrder
    /\ CalledWith("backup", TRUE)
    /\ CalledWith("update", TRUE)
    /\ fs[ev.result.new_path].rewritten
    /\ ~fs[backup_name(ev.path, ev.now)].rewritten

\* the update calls the last process_file made
UpdateCalls == {i \in 1..Len(ev.calls) : ev.calls[i].step = "update"}

\* C17: the metadata update runs only if processing.update_metadata enables
\* it: when enabled (and the rename succeeded) update_metadata is invoked
\* exactly once, on new_path and with the extracted metadata; when disabled it
\* is not invoked and no "Failed to update metadata" warning is recorded.
C17_UpdateOnlyIfEnabled ==
    FileReturned =>
        /\ (config.processing_update_metadata /\ CalledWith("rename", TRUE)) =>
              /\ Cardinality(UpdateCalls) = 1
              /\ \A i \in UpdateCalls :
                    /\ ev.calls[i].path = ev.result.new_path
                    /\ ev.calls[i].metadata = ev.result.metadata
        /\ ~config.processing_update_metadata =>
              /\ UpdateCalls = {}
              /\ ~Has(ev.result.warnings, "Failed to update metadata")
              /\ \A q \in DOMAIN fs : ~fs[q].rewritten

\* C18: in every returned ProcessingResult new_path is set exactly when the
\* rename step succeeded; when set, the file is at new_path (and no longer at
\* original_path) at the moment of return; when unset, the file, if there was
\* one, is still at original_path and the tree holds the same paths as before.
C18_NewPathIffRenamed ==
    FileReturned =>
        /\ (ev.result.new_path # NoPath) <=> CalledWith("rename", TRUE)
        /\ ev.result.new_path # NoPath =>
              /\ exists(fs, ev.result.new_path)
              /\ fs[ev.result.new_path].data = ev.fs_before[ev.path].data
              /\ ev.result.new_path # ev.path
              /\ ~exists(fs, ev.path)
        /\ ev.result.new_path = NoPath =>
              /\ exists(ev.fs_before, ev.path) =>
                    (exists(fs, ev.path) /\ fs[ev.path] = ev.fs_before[ev.path])
              /\ InTree(fs) = InTree(ev.fs_before)

\* a failed call that has new_path set: the file is there, damaged by the update
C18_Witness ==
    /\ FileReturned
    /\ ~ev.result.success
    /\ ev.result.new_path # NoPath
    /\ exists(fs, ev.result.new_path)
    /\ ~exists(fs, ev.path)

\* C19: after any sequence of create_backup and cleanup_old_backups calls no
\* two ledger entries have the same backup_path, and the entries of one
\* original_path are in non-decreasing created_at order.
C19_LedgerInvariant ==
    /\ \A i, j \in 1..Len(ledger) :
          i # j => ledger[i].backup_path # ledger[j].backup_path
    /\ \A i, j \in 1..Len(ledger) :
          (i < j /\ ledger[i].original_path = ledger[j].original_path)
          => ledger[i].created_at <= ledger[j].created_at

\* C20: after a create_backup(p) that returned the backup path b,
\* list_backups(p) is the list of before the call followed by one new entry,
\* which has backup_path b and original_path p, and the file at b holds the
\* content p had when the call was made.
C20_BackupListed ==
    (ev.op = "create_backup" /\ ev.ret_path # NoPath) =>
        LET before == list_backups(ev.ledger_before, ev.path)
            after == list_backups(ledger, ev.path)
        IN /\ Len(after) = Len(before) + 1
           /\ SubSeq(after, 1, Len(before)) = before
           /\ after[Len(after)].backup_path = ev.ret_path
           /\ after[Len(after)].original_path = ev.path
           /\ exists(fs, ev.ret_path)
           /\ Content(fs[ev.ret_path]) = Content(ev.fs_before[ev.path])

\* a second backup of a file the user changed since its first backup, taken
\* in the same second
C20_Witness ==
    /\ ev.op = "create_backup" /\ ev.ret_path # NoPath
    /\ Len(list_backups(ev.ledger_before, ev.path)) = 1
    /\ ev.ledger_before[1].backup_path = ev.ret_path
    /\ fs[ev.ret_path].data = "edited"

\* the last call was a create_backup that added an entry, or a cleanup of an
\* enabled store
LedgerMutated ==
    \/ ev.op = "create_backup" /\ ev.ret_path # NoPath
    \/ ev.op = "cleanup_old_backups" /\ config.processing_backup_enabled

\* C21: after every create_backup that adds an entry and after every
\* cleanup_old_backups the ledger file holds exactly the entries of the
\* in-memory ledger, in the same order, and a Backup Store constructed now on
\* the same directory loads exactly those entries.
C21_PersistedMirrors ==
    LedgerMutated =>
        /\ ledger # <<>> =>
              /\ store.metadata_file.written
              /\ store.metadata_file.complete
              /\ store.metadata_file.entries = ledger
        /\ backup_manager_init(config, store.dirs, store.metadata_file).ledger = ledger

\* C22: after cleanup_old_backups(max_age_days) returns, the backup file of
\* every entry still in the ledger exists and is not older than max_age_days
C22_RemainingEntriesLive ==
    ev.op = "cleanup_old_backups" =>
        \A i \in 1..Len(ledger) :
            /\ exists(fs, ledger[i].backup_path)
            /\ AgeDays(fs[ledger[i].backup_path]) <= ev.max_age_days

\* the backup paths the ledger names, and how often the ledger names one
LedgerPaths(led) == {led[i].backup_path : i \in 1..Len(led)}
EntriesOf(led, b) == Cardinality({i \in 1..Len(led) : led[i].backup_path = b})

\* the last call was a cleanup of an enabled store; Doomed: the backup files it
\* found older than the cutoff and could unlink
CleanupReturned == ev.op = "cleanup_old_backups" /\ config.processing_backup_enabled
Doomed ==
    {b \in LedgerPaths(ev.ledger_before) :
        /\ exists(ev.fs_before, b)
        /\ AgeDays(ev.fs_before[b]) > ev.max_age_days
        /\ b # ev.path}

\* C23: cleanup_old_backups returns the number of entries it removed, which is
\* the number of backup files it deleted; a backup file whose unlink fails
\* stays with all its entries and is not counted, the old backups around it
\* are still removed, and the ledger file is written once after the scan with
\* the pruned ledger, also when nothing was removed
C23_CountIsRemoved ==
    CleanupReturned =>
        /\ ev.ret_count = Len(ev.ledger_before) - Len(ledger)
        /\ ev.ret_count = Cardinality(DOMAIN ev.fs_before \ DOMAIN fs)
        /\ DOMAIN ev.fs_before \ DOMAIN fs = Doomed
        /\ \A q \in DOMAIN fs : q \in DOMAIN ev.fs_before /\ fs[q] = ev.fs_before[q]
        /\ \A b \in LedgerPaths(ev.ledger_before) :
              EntriesOf(ledger, b) =
                  IF b \in Doomed THEN EntriesOf(ev.ledger_before, b) - 1
                  ELSE EntriesOf(ev.ledger_before, b)
        /\ ev.path # NoPath =>
              /\ exists(fs, ev.path)
              /\ EntriesOf(ledger, ev.path) = EntriesOf(ev.ledger_before, ev.path)
        /\ ev.io \in {"ok", "unlink"} =>
              store.metadata_file = [written |-> TRUE, complete |-> TRUE, entries |-> ledger]

\* a cleanup met a backup file it could not unlink, and removed an old backup
\* listed after it
C23_Witness ==
    /\ CleanupReturned
    /\ ev.path # NoPath
    /\ AgeDays(ev.fs_before[ev.path]) > ev.max_age_days
    /\ ev.ret_count > 0
    /\ \E i, j \in 1..Len(ev.ledger_before) :
          /\ i < j
          /\ ev.ledger_before[i].backup_path = ev.path
          /\ ev.ledger_before[j].backup_path \in Doomed

\* C24: restore_backup(b) for a path b the ledger has no entry for returns
\* false and changes nothing: no file, no directory, not the ledger and not
\* the ledger file, whether or not a file exists at b
C24_UnlistedRestoreRefused ==
    (ev.op = "restore_backup" /\ _get_original_path(ev.ledger_before, ev.path) = NoPath) =>
        /\ ~ev.ret_ok
        /\ fs = ev.fs_before
        /\ store = ev.store_before
        /\ ledger = ev.ledger_before

\* a backup file on disk whose entry the ledger has lost was asked to be
\* restored to a path of the caller's choice
C24_Witness ==
    /\ ev.op = "restore_backup"
    /\ _get_original_path(ev.ledger_before, ev.path) = NoPath
    /\ ev.path.dir = BackupDir
    /\ exists(ev.fs_before, ev.path)
    /\ ev.ret_path # NoPath
    /\ ev.ret_path.dir \notin ev.store_before.dirs

\* C25: a restore_backup that succeeds leaves the ledger, the ledger file and
\* the backup file as they were and writes the destination only (the original
\* path, or the path the caller names, and then the original path is not
\* touched); the same restore made again succeeds and changes nothing more
C25_RestoreRepeatable ==
    (ev.op = "restore_backup" /\ ev.ret_ok) =>
        LET dest == restore_destination(ev.ledger_before, ev.path, ev.ret_path)
        IN /\ ledger = ev.ledger_before
           /\ store.metadata_file = ev.store_before.metadata_file
           /\ store.dirs = ev.store_before.dirs \cup {dest.dir}
           /\ exists(fs, ev.path) /\ fs[ev.path] = ev.fs_before[ev.path]
           /\ fs = WithFile(ev.fs_before, dest, ev.fs_before[ev.path])
           /\ restore_backup(fs, ledger, ev.path, ev.ret_path, FALSE) = [fs |-> fs, ret |-> TRUE]

\* a backup was restored to a path of the caller's choice in a new directory
\* while the original, edited since the backup, is still in place
C25_Witness ==
    /\ ev.op = "restore_backup"
    /\ ev.ret_ok
    /\ ev.ret_path # NoPath
    /\ ev.ret_path.dir \notin ev.store_before.dirs
    /\ ledger # <<>>
    /\ LET original_path == _get_original_path(ledger, ev.path)
       IN /\ original_path # ev.ret_path
          /\ exists(fs, original_path)
          /\ fs[original_path] # fs[ev.path]
          /\ fs[ev.ret_path] = fs[ev.path]

\* C26: with backups disabled no backup directory and no ledger file ever
\* appear, create_backup returns none and cleanup_old_backups returns 0, both
\* leaving every file in place; with backups enabled the backup directory and
\* the ledger file do not exist before the first operation that needs them
C26_LazyCreation ==
    /\ ~config.processing_backup_enabled =>
          /\ BackupDir \notin store.dirs
          /\ ~store.metadata_file.written
          /\ ev.op = "create_backup" => ev.ret_path = NoPath /\ fs = ev.fs_before
          /\ ev.op = "cleanup_old_backups" => ev.ret_count = 0 /\ fs = ev.fs_before
    /\ (config.processing_backup_enabled /\ ops = 0) =>
          /\ BackupDir \notin store.dirs
          /\ ~store.metadata_file.written

\* the last call was generate_filename; its pattern, and whether the metadata
\* it was given supplies every placeholder of that pattern
NameGenerated == ev.op = "generate_filename"
KindPattern == IF _is_audio(config, ev.path) THEN config.audio_pattern ELSE config.video_pattern
Substitutable ==
    /\ _is_audio(config, ev.path) \/ _is_video(config, ev.path)
    /\ MissingKeys(KindPattern, ev.result.metadata) = {}
EndsWith(s, t) == Len(t) <= Len(s) /\ SubSeq(s, Len(s) - Len(t) + 1, Len(s)) = t

\* C27: for an audio or video file and metadata that supplies every
\* placeholder of the pattern, the generated name holds no invalid character
\* and ends in the file's own extension, dot and letter case included
C27_SanitizedWithExtension ==
    (NameGenerated /\ Substitutable) =>
        /\ \A i \in 1..Len(ev.new_name) : ev.new_name[i] \notin InvalidChars
        /\ EndsWith(ev.new_name, suffix(ev.path.name))

\* C28: generate_filename returns the original name, character for character,
\* when the file is neither audio nor video or the metadata lacks a
\* placeholder of the pattern
C28_OriginalNameKept ==
    (NameGenerated /\ ~Substitutable) => ev.new_name = ev.path.name

\* an audio file whose name sanitization would change, with a title but no
\* artist for the pattern "{artist} - {title}"
C28_Witness ==
    /\ NameGenerated
    /\ _is_audio(config, ev.path)
    /\ MissingKeys(KindPattern, ev.result.metadata) = {"artist"}
    /\ "title" \in DOMAIN ev.result.metadata
    /\ sanitize_filename(ev.path.name) # ev.path.name
    /\ ev.new_name = ev.path.name

\* C29: the substituted name is sanitized first and the original extension is
\* attached to the sanitized name, so that a name part that sanitizes to
\* nothing gives "unnamed_file" followed by the extension
C29_SanitizeThenExtension ==
    (NameGenerated /\ Substitutable) =>
        ev.new_name = sanitize_filename(format(KindPattern, ev.result.metadata))
                          \o suffix(ev.path.name)

\* C30: get_unique_filename returns the path itself when no file has it, else
\* the first of stem_1.ext, stem_2.ext, ... that no file has; the path it
\* returns never names an existing file
C30_FirstFreeName ==
    ev.op = "get_unique_filename" =>
        /\ ~exists(ev.fs_before, ev.path) => ev.ret_path = ev.path
        /\ exists(ev.fs_before, ev.path) =>
              \E k \in 1..(Cardinality(DOMAIN ev.fs_before) + 1) :
                  /\ ev.ret_path = Numbered(ev.path, k)
                  /\ \A j \in 1..(k - 1) : exists(ev.fs_before, Numbered(ev.path, j))
        /\ ~exists(ev.fs_before, ev.ret_path)
        /\ DOMAIN ev.fs_before = {} => ev.ret_path = ev.path
        /\ fs = ev.fs_before

\* the name and every numbered variant up to the bound are taken: the answer
\* is the next number
C30_Witness ==
    /\ ev.op = "get_unique_filename"
    /\ ev.path = Path("a", SongMp3)
    /\ \A p \in TakenNames : exists(ev.fs_before, p)
    /\ ev.ret_path = Numbered(ev.path, MaxCounter + 1)


\* C36: a create_backup of an enabled store that returns none leaves the
\* ledger, the ledger file and the backup directory as they were; one that
\* returns a path leaves the backup file and an entry for it; so every file of
\* the backup directory that create_backup wrote has a ledger entry
C36_BackupAllOrNothing ==
    (ev.op = "create_backup" /\ config.processing_backup_enabled) =>
        /\ ev.ret_path = NoPath =>
              /\ ledger = ev.ledger_before
              /\ store.metadata_file = ev.store_before.metadata_file
              /\ BackupFiles(fs) = BackupFiles(ev.fs_before)
        /\ ev.ret_path # NoPath =>
              /\ exists(fs, ev.ret_path)
              /\ _get_original_path(ledger, ev.ret_path) # NoPath


\* C39: cleanup_old_backups removes only files that the ledger lists as
\* backups and that are strictly older than max_age_days; every other file
\* (an original, a file of the backup directory without an entry, a backup at
\* or after the cutoff) is left as it was, and the entries of the backups at
\* or after the cutoff stay in the ledger in their order
C39_CleanupFrame ==
    ev.op = "cleanup_old_backups" =>
        LET Newer(e) == /\ exists(ev.fs_before, e.backup_path)
                        /\ AgeDays(ev.fs_before[e.backup_path]) <= ev.max_age_days
        IN /\ \A q \in DOMAIN ev.fs_before \ DOMAIN fs :
                 /\ q \in LedgerPaths(ev.ledger_before)
                 /\ AgeDays(ev.fs_before[q]) > ev.max_age_days
           /\ \A q \in DOMAIN fs : q \in DOMAIN ev.fs_before /\ fs[q] = ev.fs_before[q]
           /\ SelectSeq(ledger, Newer) = SelectSeq(ev.ledger_before, Newer)

\* a cleanup removed an old backup and kept the originals and a backup that
\* is exactly at the cutoff
C39_Witness ==
    /\ ev.op = "cleanup_old_backups"
    /\ ev.ret_count > 0
    /\ InTree(fs) # {}
    /\ \E i \in 1..Len(ledger) :
          /\ exists(fs, ledger[i].backup_path)
          /\ AgeDays(fs[ledger[i].backup_path]) = ev.max_age_days


\* C37: when the name generated for a file is the name it already has,
\* process_file leaves the file at its path, and processing the result of a
\* successful process_file again ends at the same path
C37_Idempotent ==
    FileReturned =>
        /\ (/\ CalledWith("rename", TRUE)
            /\ generate_filename(config, ev.path, ev.result.metadata) = ev.path.name)
              => ev.result.new_path = ev.path
        /\ ev.result.success =>
              process_file(fs, ledger, clock, config, ev.result.new_path, "ok").result.new_path
                  = ev.result.new_path


\* C38: while process_directory runs, the list of files is the one taken at
\* the start; each pipeline leaves every file of the tree other than its own
\* source as it was and creates no file but its own target, so every file
\* still waiting is at its discovered path with the content it had at the
\* start; and no path a file was renamed to is waiting to be processed
C38_OtherFilesUntouched ==
    mode = "dir" =>
        /\ \A i \in 1..Len(found) : found[i] \in MediaFiles(start_fs, config)
        /\ \A i, j \in 1..Len(found) : i # j => found[i] # found[j]
        /\ \A i \in 1..Len(queue) :
              /\ exists(fs, queue[i])
              /\ fs[queue[i]] = start_fs[queue[i]]
              /\ \A j \in 1..Len(results) : results[j].new_path # queue[i]
        /\ FileReturned =>
              /\ \A q \in InTree(ev.fs_before) \ {ev.path} :
                    exists(fs, q) /\ fs[q] = ev.fs_before[q]
              /\ InTree(fs) \ InTree(ev.fs_before) \subseteq {ev.result.new_path}

\* the first file's generated name is the path of a file still waiting: it
\* went to the numbered name and the waiting file is as it was
C38_Witness ==
    /\ mode = "dir"
    /\ FileReturned
    /\ ev.result.success
    /\ ev.result.new_path = Path("a", <<"A", " ", "-", " ", "B", "_", "1", ".", "mp3">>)
    /\ queue = <<Path("a", ABMp3)>>


\* C32: update_metadata on a readable audio file, whatever tags it has, writes
\* every non-empty common field of the metadata under its mapped tag name as a
\* string, saves once and returns true
C32_UpdateWritesFields ==
    (ev.op = "audio_update" /\ ev.audio.open = "ok" /\ ev.io = "ok") =>
        /\ \A field \in DOMAIN tag_mapping :
              (field \in DOMAIN ev.result.metadata /\ ev.result.metadata[field].text # "") =>
                  /\ tag_mapping[field] \in DOMAIN ev.tags_after
                  /\ ev.tags_after[tag_mapping[field]] =
                         [type |-> "str", text |-> ev.result.metadata[field].text]
        /\ ev.saves = 1
        /\ ev.ret_ok

ExtensionIn(name, exts) ==
    \E e \in exts :
        /\ Len(e) = Len(suffix(name))
        /\ \A i \in 1..Len(e) : LowerChar(e[i]) = LowerChar(suffix(name)[i])

\* C31: the gateway dispatches by the extension, compared without regard to
\* case with the configured audio and video extensions: for an audio
\* extension extract_metadata and update_metadata give what the audio codec
\* gives on the file as it is now (nothing is remembered from earlier
\* calls), for a video extension what the video codec gives (the empty
\* mapping and false, the file untouched), and for any other extension the
\* empty mapping and false without a codec being called.
C31_PureDispatch ==
    LET p == ev.path
        before == ev.fs_before
        audio == ExtensionIn(p.name, config.audio)
        video == ~audio /\ ExtensionIn(p.name, config.video)
    IN /\ ev.op = "extract_metadata" =>
             /\ audio => /\ ev.calls = <<"audio">>
                         /\ ev.result.metadata = audio_extract_metadata(fs[p])
             /\ video => ev.calls = <<"video">> /\ ev.result.metadata = NoTags
             /\ (~audio /\ ~video) => ev.calls = <<>> /\ ev.result.metadata = NoTags
             /\ fs = before
       /\ ev.op = "update_metadata" =>
             /\ audio => /\ ev.calls = <<"audio">>
                         /\ ev.ret_ok = audio_update_metadata(before[p], ev.result.metadata, ev.io).ret
                         /\ fs = WithFile(before, p,
                                    audio_update_metadata(before[p], ev.result.metadata, ev.io).file)
             /\ video => ev.calls = <<"video">> /\ ~ev.ret_ok /\ fs = before
             /\ (~audio /\ ~video) => ev.calls = <<>> /\ ~ev.ret_ok /\ fs = before

\* an extraction from the .MP3 file returns the title an update wrote before
C31_Witness ==
    /\ ev.op = "extract_metadata"
    /\ ev.path = Path("a", SongMp3Upper)
    /\ ops = 2
    /\ ev.result.metadata = [f \in {"title"} |-> <<"N">>]

\* a worker is between the first and the last step of process_file
InPipeline(w) == workers[w].pc \in {"backup", "extract", "rename", "update", "final"}

\* C34: no two pipelines are ever at work on the same source path at the
\* same time: from its validation to its return a process_file call has
\* the path to itself.
C34_OnePipelinePerPath ==
    \A v, w \in DOMAIN workers :
        (v # w /\ InPipeline(v) /\ InPipeline(w)) => workers[v].path # workers[w].path

\* C35: whatever the interleaving of the instances that share the backup
\* directory, the entry of every create_backup that returned a backup path
\* is in the ledger file.
C35_NoLostEntry ==
    \A w \in DOMAIN workers :
        workers[w].backup_path # NoPath =>
            \E i \in 1..Len(store.metadata_file.entries) :
                /\ store.metadata_file.entries[i].backup_path = workers[w].backup_path
                /\ store.metadata_file.entries[i].original_path = workers[w].path

====
